---- MODULE Spec2Model ----
(***************************************************************************)
(* Model of the Arkitecture DSL compiler: tokenizer, recursive-descent     *)
(* parser, validator, layout engine and the arkitectureToSVG pipeline.     *)
(*                                                                         *)
(* Strings are sequences of one-character strings, so that tokenizing,     *)
(* splitting at '#', joining with '.' and measuring text are computed and  *)
(* not assumed.  Relative numbers (size, anchor coordinates) are fixed     *)
(* point in thousandths; pixel quantities are fixed point in 1/64 pixel,   *)
(* which is exact for the dyadic values the model uses, as IEEE doubles    *)
(* are in the program.                                                     *)
(***************************************************************************)
EXTENDS Integers, Sequences, FiniteSets, TLC

VARIABLES
    pc,          \* position of the run: which stage is about to execute
    input,       \* Tokenizer.input: the DSL source text
    position,    \* Tokenizer.position (0-based index of the next character)
    line,        \* Tokenizer.line
    column,      \* Tokenizer.column
    tokens,      \* the Token[] built by Tokenizer.tokenize
    current,     \* Parser.current (0-based index of the next token)
    errors,      \* Parser.errors
    stack,       \* the parser's call stack: one frame per active parse loop
    parseResult, \* the ParseResult returned by parseArkitecture
    document,    \* the Document handed to validate / calculateLayout
    options,     \* the Options of arkitectureToSVG
    nodeMap,     \* Validator.nodeMap (path -> node), as an insertion-ordered list
    valErrors,   \* Validator.errors
    layout,      \* the LayoutResult of calculateLayout
    result,      \* the Result returned by arkitectureToSVG
    previous,    \* what an earlier call on the same argument returned
    watch        \* CliApp.startWatchMode: clock, timers, change events, reads

vars == <<pc, input, position, line, column, tokens, current, errors, stack,
          parseResult, document, options, nodeMap, valErrors, layout, result,
          previous, watch>>

(***************************************************************************)
(* Characters                                                              *)
(***************************************************************************)
NL == "\n"
TAB == "\t"
CR == "\r"
QUOTE == "\""
BACKSLASH == "\\"
\* what peek() and advance() return beyond the end of the input
NulChar == "\\0"

Digits == {"0", "1", "2", "3", "4", "5", "6", "7", "8", "9"}
Letters == {"a", "b", "c", "d", "e", "f", "g", "h", "i", "j", "k", "l", "m",
            "n", "o", "p", "q", "r", "s", "t", "u", "v", "w", "x", "y", "z",
            "A", "B", "C", "D", "E", "F", "G", "H", "I", "J", "K", "L", "M",
            "N", "O", "P", "Q", "R", "S", "T", "U", "V", "W", "X", "Y", "Z"}

isDigit(char) == char \in Digits
isAlpha(char) == char \in Letters \/ char = "_"
isAlphaNumeric(char) == isAlpha(char) \/ isDigit(char)

\* No value: the model's null / undefined where a sequence of at most one
\* element stands for an optional value.
None == <<>>
Some(v) == <<v>>

(***************************************************************************)
(* Tokenizer (operators over a scan state s = [position, line, column])    *)
(***************************************************************************)
TokIsAtEnd(inp, s) == s.position >= Len(inp)

TokPeek(inp, s, offset) ==
    IF s.position + offset >= Len(inp) THEN NulChar
    ELSE inp[s.position + offset + 1]

TokAdvance(inp, s) ==
    IF TokIsAtEnd(inp, s) THEN s
    ELSE IF inp[s.position + 1] = NL
         THEN [position |-> s.position + 1, line |-> s.line + 1, column |-> 1]
         ELSE [position |-> s.position + 1, line |-> s.line, column |-> s.column + 1]

RECURSIVE skipWhitespace(_, _)
skipWhitespace(inp, s) ==
    IF ~TokIsAtEnd(inp, s) /\ TokPeek(inp, s, 0) \in {" ", CR, TAB}
    THEN skipWhitespace(inp, TokAdvance(inp, s))
    ELSE s

RECURSIVE skipComment(_, _)
skipComment(inp, s) ==
    IF ~TokIsAtEnd(inp, s) /\ TokPeek(inp, s, 0) # NL
    THEN skipComment(inp, TokAdvance(inp, s))
    ELSE s

isPrecedingWhitespace(inp, s) ==
    IF s.position = 0 THEN TRUE
    ELSE inp[s.position] \in {" ", TAB, CR, NL}

Token(type, value, ln, col) ==
    [type |-> type, value |-> value, line |-> ln, column |-> col]

TokenizerError(text, arg, ln, col) ==
    [message |-> [text |-> text, arg |-> arg], line |-> ln, column |-> col]

\* The outcome of a scan: the scan state after it, the token (if any) and
\* the TokenizerError thrown (if any).
Scanned(s, tok) == [s |-> s, tok |-> Some(tok), err |-> None]
Thrown(s, err) == [s |-> s, tok |-> None, err |-> Some(err)]

EscapeValue(escaped) ==
    CASE escaped = "n" -> NL
      [] escaped = "t" -> TAB
      [] escaped = "r" -> CR
      [] OTHER -> escaped

\* scanString's loop and epilogue; s is past the opening quote.
RECURSIVE scanStringLoop(_, _, _, _, _)
scanStringLoop(inp, s, value, startLine, startColumn) ==
    IF ~TokIsAtEnd(inp, s) /\ TokPeek(inp, s, 0) # QUOTE
    THEN IF TokPeek(inp, s, 0) = NL
         THEN \* advance() counts the line, and the loop counts it again
              LET a == TokAdvance(inp, s)
              IN  scanStringLoop(inp, [a EXCEPT !.line = a.line + 1, !.column = 1],
                                 Append(value, NL), startLine, startColumn)
         ELSE IF TokPeek(inp, s, 0) = BACKSLASH
         THEN LET a == TokAdvance(inp, s)
              IN  IF TokIsAtEnd(inp, a)
                  THEN Thrown(a, TokenizerError("Unterminated string escape", <<>>,
                                                startLine, startColumn))
                  ELSE scanStringLoop(inp, TokAdvance(inp, a),
                                      Append(value, EscapeValue(TokPeek(inp, a, 0))),
                                      startLine, startColumn)
         ELSE scanStringLoop(inp, TokAdvance(inp, s),
                             Append(value, TokPeek(inp, s, 0)), startLine, startColumn)
    ELSE IF TokIsAtEnd(inp, s)
         THEN Thrown(s, TokenizerError("Unterminated string", <<>>, startLine, startColumn))
         ELSE Scanned(TokAdvance(inp, s), Token("STRING", value, startLine, startColumn))

scanString(inp, s, startLine, startColumn) ==
    scanStringLoop(inp, TokAdvance(inp, s), <<>>, startLine, startColumn)

RECURSIVE scanDigits(_, _, _)
scanDigits(inp, s, value) ==
    IF isDigit(TokPeek(inp, s, 0))
    THEN scanDigits(inp, TokAdvance(inp, s), Append(value, TokPeek(inp, s, 0)))
    ELSE [s |-> s, value |-> value]

scanNumber(inp, s, startLine, startColumn) ==
    LET int == scanDigits(inp, s, <<>>)
    IN  IF TokPeek(inp, int.s, 0) = "." /\ isDigit(TokPeek(inp, int.s, 1))
        THEN LET frac == scanDigits(inp, TokAdvance(inp, int.s), Append(int.value, "."))
             IN  Scanned(frac.s, Token("NUMBER", frac.value, startLine, startColumn))
        ELSE Scanned(int.s, Token("NUMBER", int.value, startLine, startColumn))

RECURSIVE scanIdentifierChars(_, _, _)
scanIdentifierChars(inp, s, value) ==
    IF isAlphaNumeric(TokPeek(inp, s, 0)) \/ TokPeek(inp, s, 0) = "_"
    THEN scanIdentifierChars(inp, TokAdvance(inp, s), Append(value, TokPeek(inp, s, 0)))
    ELSE [s |-> s, value |-> value]

scanIdentifier(inp, s, startLine, startColumn) ==
    LET id == scanIdentifierChars(inp, s, <<>>)
        type == IF id.value = <<"g", "r", "o", "u", "p">> THEN "GROUP" ELSE "IDENTIFIER"
    IN  Scanned(id.s, Token(type, id.value, startLine, startColumn))

SingleCharType(char) ==
    CASE char = "{" -> "LBRACE"
      [] char = "}" -> "RBRACE"
      [] char = "[" -> "LBRACKET"
      [] char = "]" -> "RBRACKET"
      [] char = ":" -> "COLON"
      [] char = "," -> "COMMA"
      [] char = "." -> "DOT"

Advance3(inp, s) == TokAdvance(inp, TokAdvance(inp, TokAdvance(inp, s)))

RECURSIVE nextToken(_, _)
nextToken(inp, s0) ==
    LET s == skipWhitespace(inp, s0)
        char == TokPeek(inp, s, 0)
    IN  IF TokIsAtEnd(inp, s) THEN [s |-> s, tok |-> None, err |-> None]
        ELSE IF char = "#"
        THEN IF s.column = 1 \/ isPrecedingWhitespace(inp, s)
             THEN nextToken(inp, skipComment(inp, s))
             ELSE Scanned(TokAdvance(inp, s), Token("HASH", <<"#">>, s.line, s.column))
        ELSE IF char = NL
        THEN Scanned(TokAdvance(inp, s), Token("NEWLINE", <<NL>>, s.line, s.column))
        ELSE IF char = "-" /\ TokPeek(inp, s, 1) = "-" /\ TokPeek(inp, s, 2) = ">"
        THEN Scanned(Advance3(inp, s), Token("ARROW", <<"-", "-", ">">>, s.line, s.column))
        ELSE IF char \in {"{", "}", "[", "]", ":", ",", "."}
        THEN Scanned(TokAdvance(inp, s), Token(SingleCharType(char), <<char>>, s.line, s.column))
        ELSE IF char = QUOTE THEN scanString(inp, s, s.line, s.column)
        ELSE IF isDigit(char) THEN scanNumber(inp, s, s.line, s.column)
        ELSE IF isAlpha(char) THEN scanIdentifier(inp, s, s.line, s.column)
        ELSE Thrown(s, TokenizerError("Unexpected character", <<char>>, s.line, s.column))

EOFToken(s) == Token("EOF", <<>>, s.line, s.column)

\* Tokenizer.tokenize as a function of the whole input: the token list, or
\* the TokenizerError that aborted it.
RECURSIVE tokenizeFrom(_, _, _)
tokenizeFrom(inp, s, toks) ==
    IF TokIsAtEnd(inp, s) THEN [tokens |-> Append(toks, EOFToken(s)), err |-> None]
    ELSE LET r == nextToken(inp, s)
         IN  IF r.err # None THEN [tokens |-> <<>>, err |-> r.err]
             ELSE tokenizeFrom(inp, r.s, toks \o r.tok)

TokStart == [position |-> 0, line |-> 1, column |-> 1]
tokenize(inp) == tokenizeFrom(inp, TokStart, <<>>)

(***************************************************************************)
(* Parser helpers.  p = [current, errors] is the part of the Parser object *)
(* the token-level helpers read and write; toks is Parser.tokens.          *)
(***************************************************************************)
PIsAtEnd(toks, p) ==
    p.current >= Len(toks) \/ toks[p.current + 1].type = "EOF"

PPeek(toks, p) == toks[p.current + 1]

PCheck(toks, p, type) ==
    IF PIsAtEnd(toks, p) THEN FALSE ELSE PPeek(toks, p).type = type

PAdvance(toks, p) ==
    IF ~PIsAtEnd(toks, p) THEN [p EXCEPT !.current = p.current + 1] ELSE p

\* peekNext() is null or a token; the callers only ask for its type
PeekNextIs(toks, p, type) ==
    IF p.current + 1 >= Len(toks) THEN FALSE
    ELSE toks[p.current + 2].type = type

ValidationError(type, text, arg, ln, col) ==
    [type |-> type, message |-> [text |-> text, arg |-> arg], line |-> ln, column |-> col]

\* addError with the position of token t
PAddError(p, type, text, arg, t) ==
    [p EXCEPT !.errors = Append(p.errors, ValidationError(type, text, arg, t.line, t.column))]

\* while (!isAtEnd() && !check(IDENTIFIER) && !check(EOF)) advance()
RECURSIVE skipUntilNodeOrEOF(_, _)
skipUntilNodeOrEOF(toks, p) ==
    IF ~PIsAtEnd(toks, p) /\ ~PCheck(toks, p, "IDENTIFIER") /\ ~PCheck(toks, p, "EOF")
    THEN skipUntilNodeOrEOF(toks, PAdvance(toks, p))
    ELSE p

RECURSIVE skipUntilRecovery(_, _)
skipUntilRecovery(toks, p) ==
    IF /\ ~PIsAtEnd(toks, p)
       /\ ~PCheck(toks, p, "COLON")
       /\ ~PCheck(toks, p, "IDENTIFIER")
       /\ ~PCheck(toks, p, "RBRACE")
       /\ ~PCheck(toks, p, "EOF")
    THEN skipUntilRecovery(toks, PAdvance(toks, p))
    ELSE p

RECURSIVE skipUntilBracketOrComma(_, _)
skipUntilBracketOrComma(toks, p) ==
    IF /\ ~PIsAtEnd(toks, p)
       /\ ~PCheck(toks, p, "RBRACKET")
       /\ ~PCheck(toks, p, "COMMA")
       /\ ~PCheck(toks, p, "RBRACE")
       /\ ~PCheck(toks, p, "EOF")
    THEN skipUntilBracketOrComma(toks, PAdvance(toks, p))
    ELSE p

(***************************************************************************)
(* Numbers: parseFloat of a NUMBER token's text, in thousandths.           *)
(***************************************************************************)
Milli == 1000

DigitValue(char) ==
    CASE char = "0" -> 0 [] char = "1" -> 1 [] char = "2" -> 2 [] char = "3" -> 3
      [] char = "4" -> 4 [] char = "5" -> 5 [] char = "6" -> 6 [] char = "7" -> 7
      [] char = "8" -> 8 [] char = "9" -> 9

\* value of the digits of chars[i..], read as an integer (before the '.')
RECURSIVE IntPart(_, _, _)
IntPart(chars, i, acc) ==
    IF i > Len(chars) \/ chars[i] = "." THEN acc
    ELSE IntPart(chars, i + 1, acc * 10 + DigitValue(chars[i]))

RECURSIVE FracPart(_, _, _)
FracPart(chars, i, weight) ==
    IF i > Len(chars) \/ weight = 0 THEN 0
    ELSE DigitValue(chars[i]) * weight + FracPart(chars, i + 1, weight \div 10)

DotIndex(chars) ==
    IF \E i \in 1..Len(chars) : chars[i] = "."
    THEN CHOOSE i \in 1..Len(chars) : chars[i] = "."
    ELSE Len(chars) + 1

parseFloat(chars) ==
    IntPart(chars, 1, 0) * Milli + FracPart(chars, DotIndex(chars) + 1, Milli \div 10)

(***************************************************************************)
(* AST values.  A ContainerNode is a record with an id field, a GroupNode  *)
(* one without; the optional fields (label, direction, size, anchors) are  *)
(* in the record's domain only when they are set, so that 'id' in node     *)
(* and node.size !== undefined are domain tests as in the program.         *)
(* An anchors object is the list of its own entries in insertion order.    *)
(***************************************************************************)
Has(obj, field) == field \in DOMAIN obj

SetField(obj, field, value) == (field :> value) @@ obj

\* names every plain JavaScript object inherits from Object.prototype
\* (one representative: "valueOf")
ObjectPrototypeKeys == { <<"v", "a", "l", "u", "e", "O", "f">> }

ObjKeys(obj) == { obj[i].name : i \in 1..Len(obj) }

\* the `key in obj` operator: own and inherited properties
ObjIn(obj, key) == key \in ObjKeys(obj) \/ key \in ObjectPrototypeKeys

\* the truthiness of obj[key], for an object whose own values are arrays
ObjGetTruthy(obj, key) == key \in ObjKeys(obj) \/ key \in ObjectPrototypeKeys

\* obj[key] = value: overwrite in place, or append a new own entry
ObjSet(obj, key, value) ==
    IF key \in ObjKeys(obj)
    THEN [i \in 1..Len(obj) |->
             IF obj[i].name = key THEN [name |-> key, coord |-> value] ELSE obj[i]]
    ELSE Append(obj, [name |-> key, coord |-> value])

ObjGet(obj, key) == obj[CHOOSE i \in 1..Len(obj) : obj[i].name = key].coord

(***************************************************************************)
(* Parser: property parsers.  Each takes the parser state p and the node   *)
(* being filled and returns both as changed by the call.                   *)
(***************************************************************************)
KwLabel == <<"l", "a", "b", "e", "l">>
KwDirection == <<"d", "i", "r", "e", "c", "t", "i", "o", "n">>
KwSize == <<"s", "i", "z", "e">>
KwAnchors == <<"a", "n", "c", "h", "o", "r", "s">>
StrVertical == <<"v", "e", "r", "t", "i", "c", "a", "l">>
StrHorizontal == <<"h", "o", "r", "i", "z", "o", "n", "t", "a", "l">>
StrCenter == <<"c", "e", "n", "t", "e", "r">>

\* "if (!this.check(RBRACE)) this.advance()" after an error on token p.current
SkipUnlessRBrace(toks, p) ==
    IF ~PCheck(toks, p, "RBRACE") THEN PAdvance(toks, p) ELSE p

parseLabel(toks, p, node) ==
    IF ~PCheck(toks, p, "STRING")
    THEN [p |-> SkipUnlessRBrace(toks,
                    PAddError(p, "syntax", "Expected string value for label, got",
                              <<PPeek(toks, p).type>>, PPeek(toks, p))),
          node |-> node]
    ELSE [p |-> PAdvance(toks, p),
          node |-> SetField(node, "label", PPeek(toks, p).value)]

\* parseDirection and the value part of parseGroupProperty (the same code)
parseDirection(toks, p, node) ==
    IF ~PCheck(toks, p, "STRING")
    THEN [p |-> SkipUnlessRBrace(toks,
                    PAddError(p, "syntax", "Expected string value for direction, got",
                              <<PPeek(toks, p).type>>, PPeek(toks, p))),
          node |-> node]
    ELSE LET directionToken == PPeek(toks, p)
             direction == directionToken.value
         IN  IF direction # StrVertical /\ direction # StrHorizontal
             THEN [p |-> PAddError(PAdvance(toks, p), "syntax", "Invalid direction",
                                   direction, directionToken),
                   node |-> node]
             ELSE [p |-> PAdvance(toks, p),
                   node |-> SetField(node, "direction",
                                     IF direction = StrVertical THEN "vertical"
                                     ELSE "horizontal")]

parseSize(toks, p, node) ==
    IF ~PCheck(toks, p, "NUMBER")
    THEN [p |-> SkipUnlessRBrace(toks,
                    PAddError(p, "syntax", "Expected number value for size, got",
                              <<PPeek(toks, p).type>>, PPeek(toks, p))),
          node |-> node]
    ELSE LET sizeToken == PPeek(toks, p)
             sizeValue == parseFloat(sizeToken.value)
         IN  IF sizeValue < 0 \/ sizeValue > Milli
             THEN [p |-> PAddError(PAdvance(toks, p), "constraint",
                                   "Size value is out of range, expected 0.0-1.0",
                                   sizeToken.value, sizeToken),
                   node |-> node]
             ELSE [p |-> PAdvance(toks, p), node |-> SetField(node, "size", sizeValue)]

\* parseCoordinate: [p, coord], coord = None for null
CoordFail(toks, p, text) ==
    [p |-> skipUntilBracketOrComma(toks,
               PAddError(p, "syntax", text, <<PPeek(toks, p).type>>, PPeek(toks, p))),
     coord |-> None]

RangeChecked(p, value, token, text) ==
    IF value < 0 \/ value > Milli
    THEN PAddError(p, "constraint", text, token.value, token)
    ELSE p

parseCoordinate(toks, p) ==
    IF ~PCheck(toks, p, "LBRACKET")
    THEN LET p1 == PAddError(p, "syntax", "Expected '[' to start coordinate array, got",
                             <<PPeek(toks, p).type>>, PPeek(toks, p))
         IN  [p |-> IF /\ ~PCheck(toks, p1, "RBRACE")
                       /\ ~PCheck(toks, p1, "COMMA")
                       /\ ~PIsAtEnd(toks, p1)
                    THEN PAdvance(toks, p1) ELSE p1,
              coord |-> None]
    ELSE LET p1 == PAdvance(toks, p)   \* consume '['
         IN  IF ~PCheck(toks, p1, "NUMBER")
             THEN CoordFail(toks, p1, "Expected number for X coordinate, got")
             ELSE
         LET xToken == PPeek(toks, p1)
             x == parseFloat(xToken.value)
             p2 == RangeChecked(PAdvance(toks, p1), x, xToken,
                                "X coordinate is out of range, expected 0.0-1.0")
         IN  IF ~PCheck(toks, p2, "COMMA")
             THEN CoordFail(toks, p2, "Expected ',' between coordinates, got")
             ELSE
         LET p3 == PAdvance(toks, p2)  \* consume ','
         IN  IF ~PCheck(toks, p3, "NUMBER")
             THEN CoordFail(toks, p3, "Expected number for Y coordinate, got")
             ELSE
         LET yToken == PPeek(toks, p3)
             y == parseFloat(yToken.value)
             p4 == RangeChecked(PAdvance(toks, p3), y, yToken,
                                "Y coordinate is out of range, expected 0.0-1.0")
         IN  IF ~PCheck(toks, p4, "RBRACKET")
             THEN CoordFail(toks, p4, "Expected ']' to close coordinate array, got")
             ELSE [p |-> PAdvance(toks, p4), coord |-> Some(<<x, y>>)]

\* parseGroupProperty: called with the 'direction' identifier at p.current
parseGroupProperty(toks, p, group) ==
    LET propertyToken == PPeek(toks, p)
        p1 == PAdvance(toks, p)
    IN  IF propertyToken.value # KwDirection
        THEN [p |-> PAddError(p1, "syntax", "Groups can only have 'direction' property, got",
                              propertyToken.value, propertyToken),
              node |-> group]
        ELSE IF ~PCheck(toks, p1, "COLON")
        THEN [p |-> skipUntilRecovery(toks,
                        PAddError(p1, "syntax", "Expected ':' after 'direction', got",
                                  <<PPeek(toks, p1).type>>, PPeek(toks, p1))),
              node |-> group]
        ELSE parseDirection(toks, PAdvance(toks, p1), group)

\* parseProperty up to the call of parseAnchors: [p, node, anchors], where
\* anchors says that parseAnchors(node) is called next
parseProperty(toks, p, node) ==
    LET propertyToken == PPeek(toks, p)
        propertyName == propertyToken.value
        p1 == PAdvance(toks, p)
    IN  IF ~PCheck(toks, p1, "COLON")
        THEN [p |-> skipUntilRecovery(toks,
                        PAddError(p1, "syntax", "Expected ':' after property",
                                  propertyName, PPeek(toks, p1))),
              node |-> node, anchors |-> FALSE]
        ELSE LET p2 == PAdvance(toks, p1)  \* consume ':'
             IN  CASE propertyName = KwLabel ->
                        parseLabel(toks, p2, node) @@ [anchors |-> FALSE]
                   [] propertyName = KwDirection ->
                        parseDirection(toks, p2, node) @@ [anchors |-> FALSE]
                   [] propertyName = KwSize ->
                        parseSize(toks, p2, node) @@ [anchors |-> FALSE]
                   [] propertyName = KwAnchors ->
                        [p |-> p2, node |-> node, anchors |-> TRUE]
                   [] OTHER ->
                        LET p3 == PAddError(p2, "syntax", "Unknown property",
                                            propertyName, propertyToken)
                        IN  [p |-> IF ~PCheck(toks, p3, "RBRACE") /\ ~PIsAtEnd(toks, p3)
                                   THEN PAdvance(toks, p3) ELSE p3,
                             node |-> node, anchors |-> FALSE]

(***************************************************************************)
(* Parser: the recursive descent as a stack machine.  A frame            *)
(* [fn, val] is one active call whose body is a loop: parseNodes (val:     *)
(* the nodes parsed so far), parseNode (val: the node being filled by      *)
(* parseNodeContent), parseGroup (val: the group being filled by           *)
(* parseGroupContent), parseAnchors (val: the anchors object).  One step   *)
(* is one iteration of the loop of the top frame, with every call that     *)
(* returns without entering another loop executed inside the step.         *)
(***************************************************************************)
Frame(fn, val) == [fn |-> fn, val |-> val]

Top(stk) == stk[Len(stk)]

Pop(stk) == SubSeq(stk, 1, Len(stk) - 1)

\* the callee returns `child` to the frame that is then on top: parseNodes
\* pushes it on nodes, parseNodeContent / parseGroupContent on children
ReturnChild(stk, child) ==
    LET rest == Pop(stk)
        caller == Top(rest)
    IN  [rest EXCEPT ![Len(rest)] =
            IF caller.fn = "parseNodes"
            THEN Frame(caller.fn, Append(caller.val, child))
            ELSE Frame(caller.fn, [caller.val EXCEPT !.children = Append(@, child)])]

\* parseNode up to its call of parseNodeContent: push is the frame of the
\* node whose body is entered, or None when parseNode returned null
parseNodeHeader(toks, p) ==
    IF ~PCheck(toks, p, "IDENTIFIER")
    THEN IF ~PIsAtEnd(toks, p) /\ ~PCheck(toks, p, "EOF")
         THEN [p |-> PAdvance(toks, PAddError(p, "syntax", "Expected node identifier, got",
                                              <<PPeek(toks, p).type>>, PPeek(toks, p))),
               push |-> None]
         ELSE [p |-> p, push |-> None]
    ELSE LET idToken == PPeek(toks, p)
             p1 == PAdvance(toks, p)
         IN  IF ~PCheck(toks, p1, "LBRACE")
             THEN [p |-> skipUntilNodeOrEOF(toks,
                             PAddError(p1, "syntax", "Expected '{' after node id",
                                       idToken.value, PPeek(toks, p1))),
                   push |-> None]
             ELSE [p |-> PAdvance(toks, p1),
                   push |-> Some(Frame("parseNode",
                                       [id |-> idToken.value, children |-> <<>>]))]

\* parseGroup up to its call of parseGroupContent (the GROUP token is at p)
parseGroupHeader(toks, p) ==
    LET p1 == PAdvance(toks, p)
    IN  IF ~PCheck(toks, p1, "LBRACE")
        THEN [p |-> skipUntilNodeOrEOF(toks,
                        PAddError(p1, "syntax", "Expected '{' after 'group', got",
                                  <<PPeek(toks, p1).type>>, PPeek(toks, p1))),
              push |-> None]
        ELSE [p |-> PAdvance(toks, p1),
              push |-> Some(Frame("parseGroup", [children |-> <<>>]))]

\* parseAnchors up to its loop
parseAnchorsHeader(toks, p) ==
    IF ~PCheck(toks, p, "LBRACE")
    THEN [p |-> SkipUnlessRBrace(toks,
                    PAddError(p, "syntax", "Expected '{' to start anchors object, got",
                              <<PPeek(toks, p).type>>, PPeek(toks, p))),
          push |-> None]
    ELSE [p |-> PAdvance(toks, p), push |-> Some(Frame("parseAnchors", <<>>))]

Step(p, stk) == [p |-> p, stack |-> stk]

Entered(h, stk) == Step(h.p, stk \o h.push)

WithTopVal(stk, val) == [stk EXCEPT ![Len(stk)] = Frame(Top(stk).fn, val)]

\* one iteration of the loop of parseNodes whose `continue` on a NEWLINE comes
\* before the advance
parseNodesStepKeepingNewline(toks, p, stk) ==
    IF PCheck(toks, p, "NEWLINE") THEN Step(p, stk)
    ELSE Entered(parseNodeHeader(toks, p), stk)

\* one iteration of the loop of parseNodes (the loop condition holds)
parseNodesStep(toks, p, stk) ==
    IF PCheck(toks, p, "NEWLINE") THEN Step(PAdvance(toks, p), stk)
    ELSE Entered(parseNodeHeader(toks, p), stk)

\* the loops of parseNodeContent, parseGroupContent and parseAnchors run
\* while this holds
InBody(toks, p) == ~PCheck(toks, p, "RBRACE") /\ ~PIsAtEnd(toks, p)

\* parseNode / parseGroup after the content loop: close and return the node
closeBlock(toks, p, stk, text, arg) ==
    IF ~PCheck(toks, p, "RBRACE")
    THEN Step(PAddError(p, "syntax", text, arg, PPeek(toks, p)),
              ReturnChild(stk, Top(stk).val))
    ELSE Step(PAdvance(toks, p), ReturnChild(stk, Top(stk).val))

\* one iteration of parseNodeContent, or parseNode's epilogue after it
parseNodeContentStep(toks, p, stk) ==
    LET node == Top(stk).val
    IN  IF ~InBody(toks, p)
        THEN closeBlock(toks, p, stk, "Expected '}' to close node", node.id)
        ELSE IF PCheck(toks, p, "NEWLINE") THEN Step(PAdvance(toks, p), stk)
        ELSE IF PCheck(toks, p, "IDENTIFIER")
        THEN IF PeekNextIs(toks, p, "LBRACE")
             THEN Entered(parseNodeHeader(toks, p), stk)
             ELSE LET r == parseProperty(toks, p, node)
                  IN  IF r.anchors
                      THEN Entered(parseAnchorsHeader(toks, r.p), WithTopVal(stk, r.node))
                      ELSE Step(r.p, WithTopVal(stk, r.node))
        ELSE IF PCheck(toks, p, "GROUP")
        THEN Entered(parseGroupHeader(toks, p), stk)
        ELSE Step(PAdvance(toks,
                      PAddError(p, "syntax", "Expected property name, nested node, or group, got",
                                <<PPeek(toks, p).type>>, PPeek(toks, p))),
                  stk)

\* "Skip invalid property and its value" of parseGroupContent
skipGroupProperty(toks, p) ==
    LET p1 == PAdvance(toks, p)
    IN  IF PCheck(toks, p1, "COLON")
        THEN LET p2 == PAdvance(toks, p1)
             IN  IF ~PCheck(toks, p2, "RBRACE") /\ ~PIsAtEnd(toks, p2)
                 THEN PAdvance(toks, p2) ELSE p2
        ELSE p1

\* one iteration of parseGroupContent, or parseGroup's epilogue after it
parseGroupContentStep(toks, p, stk) ==
    LET group == Top(stk).val
    IN  IF ~InBody(toks, p)
        THEN closeBlock(toks, p, stk, "Expected '}' to close group, got",
                        <<PPeek(toks, p).type>>)
        ELSE IF PCheck(toks, p, "NEWLINE") THEN Step(PAdvance(toks, p), stk)
        ELSE IF PCheck(toks, p, "IDENTIFIER")
        THEN IF PeekNextIs(toks, p, "LBRACE")
             THEN Entered(parseNodeHeader(toks, p), stk)
             ELSE IF PPeek(toks, p).value = KwDirection
             THEN LET r == parseGroupProperty(toks, p, group)
                  IN  Step(r.p, WithTopVal(stk, r.node))
             ELSE Step(skipGroupProperty(toks,
                           PAddError(p, "syntax",
                                     "Groups can only have 'direction' property, got",
                                     PPeek(toks, p).value, PPeek(toks, p))),
                       stk)
        ELSE IF PCheck(toks, p, "GROUP")
        THEN Entered(parseGroupHeader(toks, p), stk)
        ELSE Step(PAdvance(toks,
                      PAddError(p, "syntax", "Expected nested node or group in group, got",
                                <<PPeek(toks, p).type>>, PPeek(toks, p))),
                  stk)

\* parseAnchors returns to parseProperty / parseNodeContent: node.anchors is
\* set when `anchors` is given
ReturnAnchors(stk, anchors) ==
    LET rest == Pop(stk)
    IN  IF anchors = None THEN rest
        ELSE WithTopVal(rest, SetField(Top(rest).val, "anchors", anchors[1]))

\* one iteration of the loop of parseAnchors, or its epilogue
parseAnchorsStep(toks, p, stk) ==
    LET anchors == Top(stk).val
    IN  IF ~InBody(toks, p)
        THEN IF ~PCheck(toks, p, "RBRACE")
             THEN Step(PAddError(p, "syntax", "Expected '}' to close anchors object, got",
                                 <<PPeek(toks, p).type>>, PPeek(toks, p)),
                       ReturnAnchors(stk, None))
             ELSE Step(PAdvance(toks, p),
                       ReturnAnchors(stk, IF Len(anchors) > 0 THEN Some(anchors) ELSE None))
        ELSE IF PCheck(toks, p, "NEWLINE") THEN Step(PAdvance(toks, p), stk)
        ELSE IF ~PCheck(toks, p, "IDENTIFIER")
        THEN Step(PAdvance(toks,
                      PAddError(p, "syntax", "Expected anchor identifier, got",
                                <<PPeek(toks, p).type>>, PPeek(toks, p))),
                  stk)
        ELSE LET anchorIdToken == PPeek(toks, p)
                 anchorId == anchorIdToken.value
                 p1 == PAdvance(toks, p)
                 p2 == IF ObjGetTruthy(anchors, anchorId)
                       THEN PAddError(p1, "syntax", "Duplicate anchor ID", anchorId,
                                      anchorIdToken)
                       ELSE p1
             IN  IF ~PCheck(toks, p2, "COLON")
                 THEN Step(skipUntilRecovery(toks,
                               PAddError(p2, "syntax", "Expected ':' after anchor ID",
                                         anchorId, PPeek(toks, p2))),
                           stk)
                 ELSE LET c == parseCoordinate(toks, PAdvance(toks, p2))
                          set == IF c.coord # None
                                 THEN ObjSet(anchors, anchorId, c.coord[1])
                                 ELSE anchors
                      IN  Step(IF PCheck(toks, c.p, "COMMA") THEN PAdvance(toks, c.p)
                               ELSE c.p,
                               WithTopVal(stk, set))

\* parseDocument returning the document only when no error was recorded
parseDocumentResultWithoutPartial(nodes, errs) ==
    IF Len(errs) > 0
    THEN [success |-> FALSE, errors |-> errs]
    ELSE [success |-> TRUE, document |-> [nodes |-> nodes, arrows |-> <<>>], errors |-> <<>>]

\* parseDocument after parseNodes returned `nodes` with `errs` recorded
parseDocumentResult(nodes, errs) ==
    IF Len(errs) > 0
    THEN [success |-> FALSE, document |-> [nodes |-> nodes, arrows |-> <<>>], errors |-> errs]
    ELSE [success |-> TRUE, document |-> [nodes |-> nodes, arrows |-> <<>>], errors |-> <<>>]

\* parseArkitecture's catch of a TokenizerError
tokenizerFailure(err) ==
    [success |-> FALSE,
     errors |-> <<ValidationError("syntax", err.message.text, err.message.arg,
                                  err.line, err.column)>>]

\* one step of the parser: one iteration of the loop of the top frame
parserStep(toks, p, stk) ==
    CASE Top(stk).fn = "parseNodes" -> parseNodesStep(toks, p, stk)
      [] Top(stk).fn = "parseNode" -> parseNodeContentStep(toks, p, stk)
      [] Top(stk).fn = "parseGroup" -> parseGroupContentStep(toks, p, stk)
      [] Top(stk).fn = "parseAnchors" -> parseAnchorsStep(toks, p, stk)

\* parseNodes has left its loop: parseDocument returns
ParserDone(toks, p, stk) == Top(stk).fn = "parseNodes" /\ PIsAtEnd(toks, p)

ParserStart == [p |-> [current |-> 0, errors |-> <<>>],
                stack |-> <<Frame("parseNodes", <<>>)>>]

\* new Parser(tokens).parseDocument() as a function of the tokens
RECURSIVE parseDocumentFrom(_, _, _)
parseDocumentFrom(toks, p, stk) ==
    IF ParserDone(toks, p, stk) THEN parseDocumentResult(Top(stk).val, p.errors)
    ELSE LET r == parserStep(toks, p, stk)
         IN  parseDocumentFrom(toks, r.p, r.stack)

\* parseArkitecture as a function of the source text
parseArkitecture(dslContent) ==
    LET t == tokenize(dslContent)
    IN  IF t.err # None THEN tokenizerFailure(t.err[1])
        ELSE parseDocumentFrom(t.tokens, ParserStart.p, ParserStart.stack)

(***************************************************************************)
(* Validator                                                               *)
(***************************************************************************)
\* A JavaScript Map as the list of its entries in insertion order
MapHas(map, key) == \E i \in 1..Len(map) : map[i].key = key

MapGet(map, key) == map[CHOOSE i \in 1..Len(map) : map[i].key = key].value

MapSet(map, key, value) ==
    IF MapHas(map, key)
    THEN [i \in 1..Len(map) |->
             IF map[i].key = key THEN [key |-> key, value |-> value] ELSE map[i]]
    ELSE Append(map, [key |-> key, value |-> value])

\* `${parentPath}.${node.id}`, or node.id under an empty parentPath
JoinPath(parentPath, id) ==
    IF parentPath # <<>> THEN parentPath \o <<".">> \o id ELSE id

RECURSIVE buildNodeMapRecursive(_, _, _)
RECURSIVE buildNodeMapChildren(_, _, _, _)
buildNodeMapChildren(children, i, path, map) ==
    IF i > Len(children) THEN map
    ELSE buildNodeMapChildren(children, i + 1, path,
                              buildNodeMapRecursive(children[i], path, map))

buildNodeMapRecursive(node, parentPath, map) ==
    IF Has(node, "id")
    THEN LET fullPath == JoinPath(parentPath, node.id)
         IN  buildNodeMapChildren(node.children, 1, fullPath, MapSet(map, fullPath, node))
    ELSE buildNodeMapChildren(node.children, 1, parentPath, map)

buildNodeMap(doc) == buildNodeMapChildren(doc.nodes, 1, <<>>, <<>>)

StrRoot == <<"r", "o", "o", "t">>

DuplicateIdError(id, parentPath) ==
    [type |-> "reference",
     message |-> [text |-> "Duplicate node ID", arg |-> id,
                  scope |-> IF parentPath # <<>> THEN parentPath ELSE StrRoot],
     line |-> 1, column |-> 1]

\* collectIdsAtLevel from nodes[i] on: acc = [seen, errs]
RECURSIVE collectIdsAtLevel(_, _, _, _)
collectIdsAtLevel(nodes, i, acc, parentPath) ==
    IF i > Len(nodes) THEN acc
    ELSE LET node == nodes[i]
         IN  IF Has(node, "id")
             THEN collectIdsAtLevel(nodes, i + 1,
                      [seen |-> acc.seen \cup {node.id},
                       errs |-> IF node.id \in acc.seen
                                THEN Append(acc.errs, DuplicateIdError(node.id, parentPath))
                                ELSE acc.errs],
                      parentPath)
             ELSE collectIdsAtLevel(nodes, i + 1,
                      collectIdsAtLevel(node.children, 1, acc, parentPath), parentPath)

\* validateNodeIdUniquenessRecursive: the errors it adds, in order
RECURSIVE validateNodeIdUniquenessRecursive(_, _)
RECURSIVE validateUniquenessOfEach(_, _, _)
validateUniquenessOfEach(nodes, i, parentPath) ==
    IF i > Len(nodes) THEN <<>>
    ELSE LET node == nodes[i]
             own == IF Has(node, "id")
                    THEN validateNodeIdUniquenessRecursive(node.children,
                                                           JoinPath(parentPath, node.id))
                    ELSE validateNodeIdUniquenessRecursive(node.children, parentPath)
         IN  own \o validateUniquenessOfEach(nodes, i + 1, parentPath)

validateNodeIdUniquenessRecursive(nodes, parentPath) ==
    collectIdsAtLevel(nodes, 1, [seen |-> {}, errs |-> <<>>], parentPath).errs
        \o validateUniquenessOfEach(nodes, 1, parentPath)

validateNodeIdUniqueness(doc) == validateNodeIdUniquenessRecursive(doc.nodes, <<>>)

\* nodePathWithAnchor.indexOf('#'), 1-based; 0 when there is none
HashIndex(str) ==
    IF \E i \in 1..Len(str) : str[i] = "#"
    THEN CHOOSE i \in 1..Len(str) : str[i] = "#" /\ \A j \in 1..(i - 1) : str[j] # "#"
    ELSE 0

\* extractNodePath returning the endpoint with its #anchor suffix
extractNodePathKeepingAnchor(str) == str

extractNodePath(str) ==
    IF HashIndex(str) > 0 THEN SubSeq(str, 1, HashIndex(str) - 1) ELSE str

parseNodePathWithAnchor(str) ==
    IF HashIndex(str) > 0
    THEN [nodePath |-> SubSeq(str, 1, HashIndex(str) - 1),
          anchorId |-> SubSeq(str, HashIndex(str) + 1, Len(str))]
    ELSE [nodePath |-> str, anchorId |-> <<>>]

RefError(text, arg) ==
    [type |-> "reference", message |-> [text |-> text, arg |-> arg], line |-> 1, column |-> 1]

\* validateSingleArrow checking the target before the source
validateSingleArrowTargetFirst(map, arrow) ==
    (IF ~MapHas(map, extractNodePath(arrow.target))
     THEN <<RefError("Arrow target node does not exist", extractNodePath(arrow.target))>>
     ELSE <<>>)
    \o
    (IF ~MapHas(map, extractNodePath(arrow.source))
     THEN <<RefError("Arrow source node does not exist", extractNodePath(arrow.source))>>
     ELSE <<>>)

validateSingleArrow(map, arrow) ==
    (IF ~MapHas(map, extractNodePath(arrow.source))
     THEN <<RefError("Arrow source node does not exist", extractNodePath(arrow.source))>>
     ELSE <<>>)
    \o
    (IF ~MapHas(map, extractNodePath(arrow.target))
     THEN <<RefError("Arrow target node does not exist", extractNodePath(arrow.target))>>
     ELSE <<>>)

RECURSIVE validateArrowReferencesFrom(_, _, _)
validateArrowReferencesFrom(map, arrows, i) ==
    IF i > Len(arrows) THEN <<>>
    ELSE validateSingleArrow(map, arrows[i]) \o validateArrowReferencesFrom(map, arrows, i + 1)

validateArrowReferences(map, doc) == validateArrowReferencesFrom(map, doc.arrows, 1)

hasAnchor(node, anchorId) ==
    IF anchorId = StrCenter THEN TRUE
    ELSE IF Has(node, "anchors") THEN ObjIn(node.anchors, anchorId) ELSE FALSE

AnchorError(text, anchorId, nodePath) ==
    [type |-> "reference",
     message |-> [text |-> text, arg |-> anchorId, node |-> nodePath],
     line |-> 1, column |-> 1]

\* the check of one endpoint in validateAnchorReferences
validateEndpointAnchor(map, endpoint, text) ==
    IF HashIndex(endpoint) > 0
    THEN LET r == parseNodePathWithAnchor(endpoint)
         IN  IF MapHas(map, r.nodePath) /\ ~hasAnchor(MapGet(map, r.nodePath), r.anchorId)
             THEN <<AnchorError(text, r.anchorId, r.nodePath)>>
             ELSE <<>>
    ELSE <<>>

RECURSIVE validateAnchorReferencesFrom(_, _, _)
validateAnchorReferencesFrom(map, arrows, i) ==
    IF i > Len(arrows) THEN <<>>
    ELSE validateEndpointAnchor(map, arrows[i].source, "Arrow source anchor does not exist")
         \o validateEndpointAnchor(map, arrows[i].target, "Arrow target anchor does not exist")
         \o validateAnchorReferencesFrom(map, arrows, i + 1)

validateAnchorReferences(map, doc) == validateAnchorReferencesFrom(map, doc.arrows, 1)

ConstraintError(text, id, anchorId) ==
    [type |-> "constraint",
     message |-> [text |-> text, arg |-> id, anchor |-> anchorId],
     line |-> 1, column |-> 1]

OutOfRange(v) == v < 0 \/ v > Milli

RECURSIVE anchorConstraintErrors(_, _, _)
anchorConstraintErrors(id, anchors, i) ==
    IF i > Len(anchors) THEN <<>>
    ELSE (IF OutOfRange(anchors[i].coord[1])
          THEN <<ConstraintError("anchor X coordinate is out of range", id, anchors[i].name)>>
          ELSE <<>>)
         \o (IF OutOfRange(anchors[i].coord[2])
             THEN <<ConstraintError("anchor Y coordinate is out of range", id, anchors[i].name)>>
             ELSE <<>>)
         \o anchorConstraintErrors(id, anchors, i + 1)

RECURSIVE validateNodeConstraints(_)
RECURSIVE validateConstraintsOfEach(_, _)
validateConstraintsOfEach(nodes, i) ==
    IF i > Len(nodes) THEN <<>>
    ELSE validateNodeConstraints(nodes[i]) \o validateConstraintsOfEach(nodes, i + 1)

validateNodeConstraints(node) ==
    (IF Has(node, "id")
     THEN (IF Has(node, "size") /\ OutOfRange(node.size)
           THEN <<ConstraintError("size is out of range", node.id, <<>>)>>
           ELSE <<>>)
          \o (IF Has(node, "anchors")
              THEN anchorConstraintErrors(node.id, node.anchors, 1)
              ELSE <<>>)
     ELSE <<>>)
    \o validateConstraintsOfEach(node.children, 1)

validateConstraints(doc) == validateConstraintsOfEach(doc.nodes, 1)

\* validate(document) as a function of the document
validate(doc) ==
    LET map == buildNodeMap(doc)
    IN  validateNodeIdUniqueness(doc)
        \o validateArrowReferences(map, doc)
        \o validateAnchorReferences(map, doc)
        \o validateConstraints(doc)

(***************************************************************************)
(* Text measurement.  Pixel quantities are integers in units of 1/PxUnit   *)
(* pixel.                                                                  *)
(***************************************************************************)
PxUnit == 1000

DefaultFontSize == 12

\* Math.round of the rational num/den (den > 0, num >= 0)
MathRound(num, den) == (2 * num + den) \div (2 * den)

MaxOf(a, b) == IF a >= b THEN a ELSE b

\* text.split('\n'): the lengths of the lines
RECURSIVE SplitLineLengths(_, _, _)
SplitLineLengths(text, i, len) ==
    IF i > Len(text) THEN <<len>>
    ELSE IF text[i] = NL THEN <<len>> \o SplitLineLengths(text, i + 1, 0)
    ELSE SplitLineLengths(text, i + 1, len + 1)

RECURSIVE MaxOfSeq(_, _)
MaxOfSeq(seq, i) ==
    IF i > Len(seq) THEN 0 ELSE MaxOf(seq[i], MaxOfSeq(seq, i + 1))

\* calculateTextWidth: Math.round(max over lines of chars * fontSize * 0.6), in pixels
calculateTextWidth(text, fontSize) ==
    IF Len(text) = 0 THEN 0
    ELSE MathRound(MaxOfSeq(SplitLineLengths(text, 1, 0), 1) * fontSize * 6, 10)

\* calculateTextHeight: Math.round(lines * fontSize * lineHeight), lineHeight 1.2
calculateTextHeight(text, fontSize) ==
    IF Len(text) = 0 THEN 0
    ELSE MathRound(Len(SplitLineLengths(text, 1, 0)) * fontSize * 12, 10)

\* getTextDimensions(node.label): an absent label is measured as ''
getTextDimensions(node, fontSize) ==
    LET actualText == IF Has(node, "label") THEN node.label ELSE <<>>
    IN  [width |-> calculateTextWidth(actualText, fontSize),
         height |-> calculateTextHeight(actualText, fontSize)]

getMinimumDimensions(fontSize) == [width |-> fontSize * 2, height |-> fontSize * 2]

(***************************************************************************)
(* Layout engine.  A NodeLayout is [node, id, dimensions, children].       *)
(***************************************************************************)
borderWidth == 1

isContainer(node) == Has(node, "id")

DirectionOf(node) == IF Has(node, "direction") THEN node.direction ELSE "vertical"

StrGroupInfix == <<"_", "g", "r", "o", "u", "p", "_">>

\* the number of buildLayoutTree calls below (and at) a node that draw a
\* synthetic group ID
RECURSIVE GroupCount(_)
RECURSIVE GroupCountOfFirst(_, _)
GroupCount(node) ==
    (IF isContainer(node) THEN 0 ELSE 1) + GroupCountOfFirst(node.children, Len(node.children))

GroupCountOfFirst(nodes, n) ==
    IF n = 0 THEN 0 ELSE GroupCountOfFirst(nodes, n - 1) + GroupCount(nodes[n])

\* the stream of Math.random() results after n of them were drawn
After(rnd, n) == [i \in 1..Len(rnd) |-> rnd[((i - 1 + n) % Len(rnd)) + 1]]

\* buildLayoutTree; rnd is the stream of the values that
\* Math.random().toString(36).substr(2, 9) gives from this call on, one drawn
\* by every call for a group
RECURSIVE buildLayoutTree(_, _, _)
buildLayoutTree(node, parentId, rnd) ==
    LET id == IF isContainer(node) THEN node.id
              ELSE (IF parentId # <<>> THEN parentId ELSE StrRoot) \o StrGroupInfix \o rnd[1]
        drawn == IF isContainer(node) THEN 0 ELSE 1
    IN  [node |-> node,
         id |-> id,
         dimensions |-> [width |-> 0, height |-> 0, x |-> 0, y |-> 0],
         children |-> [i \in 1..Len(node.children) |->
                          buildLayoutTree(node.children[i], id,
                              After(rnd, drawn + GroupCountOfFirst(node.children, i - 1)))]]

RECURSIVE SumWidths(_, _)
SumWidths(children, i) ==
    IF i > Len(children) THEN 0
    ELSE children[i].dimensions.width + SumWidths(children, i + 1)

RECURSIVE SumHeights(_, _)
SumHeights(children, i) ==
    IF i > Len(children) THEN 0
    ELSE children[i].dimensions.height + SumHeights(children, i + 1)

\* Math.max(...children.map(...)) over a non-empty list
RECURSIVE MaxWidth(_, _)
MaxWidth(children, i) ==
    IF i = Len(children) THEN children[i].dimensions.width
    ELSE MaxOf(children[i].dimensions.width, MaxWidth(children, i + 1))

RECURSIVE MaxHeight(_, _)
MaxHeight(children, i) ==
    IF i = Len(children) THEN children[i].dimensions.height
    ELSE MaxOf(children[i].dimensions.height, MaxHeight(children, i + 1))

\* px * rel for a relative number in thousandths
Scale(px, rel) == (px * rel) \div Milli

\* "Apply size override if specified (only for container nodes)"
applySizeOverride(node, direction, dims) ==
    IF isContainer(node) /\ Has(node, "size")
    THEN IF direction = "horizontal"
         THEN [dims EXCEPT !.height = Scale(dims.height, node.size)]
         ELSE [dims EXCEPT !.width = Scale(dims.width, node.size)]
    ELSE dims

\* the dimensions of a node without children
leafDimensions(node, fontSize) ==
    IF isContainer(node)
    THEN LET textDims == getTextDimensions(node, fontSize)
             minDims == getMinimumDimensions(fontSize)
         IN  [width |-> MaxOf(textDims.width + 2 * borderWidth, minDims.width) * PxUnit,
              height |-> MaxOf(textDims.height + 2 * borderWidth, minDims.height) * PxUnit]
    ELSE [width |-> 0, height |-> 0]

\* calculateDimensions: the layout tree with width and height set bottom-up
RECURSIVE calculateDimensions(_, _)
calculateDimensions(lay, fontSize) ==
    LET kids == [i \in 1..Len(lay.children) |-> calculateDimensions(lay.children[i], fontSize)]
        node == lay.node
        direction == DirectionOf(node)
    IN  IF Len(kids) = 0
        THEN LET d == leafDimensions(node, fontSize)
             IN  [lay EXCEPT !.dimensions.width = d.width, !.dimensions.height = d.height]
        ELSE IF direction = "horizontal"
        THEN LET w == SumWidths(kids, 1)
                 h == MaxHeight(kids, 1)
                 d == applySizeOverride(node, direction,
                                        [lay.dimensions EXCEPT !.width = w, !.height = h])
             IN  [lay EXCEPT !.dimensions = d,
                             !.children = IF isContainer(node)
                                          THEN [i \in 1..Len(kids) |->
                                                   [kids[i] EXCEPT !.dimensions.height = h]]
                                          ELSE kids]
        ELSE LET h == SumHeights(kids, 1)
                 w == MaxWidth(kids, 1)
                 d == applySizeOverride(node, direction,
                                        [lay.dimensions EXCEPT !.width = w, !.height = h])
             IN  [lay EXCEPT !.dimensions = d,
                             !.children = IF isContainer(node)
                                          THEN [i \in 1..Len(kids) |->
                                                   [kids[i] EXCEPT !.dimensions.width = w]]
                                          ELSE kids]

\* positionNodes: the layout tree with x and y set top-down
RECURSIVE positionNodes(_, _, _)
RECURSIVE positionChildren(_, _, _, _, _)
positionChildren(children, i, direction, currentX, currentY) ==
    IF i > Len(children) THEN <<>>
    ELSE LET child == positionNodes(children[i], currentX, currentY)
         IN  <<child>> \o
             (IF direction = "horizontal"
              THEN positionChildren(children, i + 1, direction,
                                    currentX + child.dimensions.width, currentY)
              ELSE positionChildren(children, i + 1, direction,
                                    currentX, currentY + child.dimensions.height))

positionNodes(lay, x, y) ==
    [lay EXCEPT !.dimensions.x = x,
                !.dimensions.y = y,
                !.children = positionChildren(lay.children, 1, DirectionOf(lay.node), x, y)]

\* a collection that also records groups, under their synthetic IDs
RECURSIVE collectNodeDimensionsWithGroups(_, _)
RECURSIVE collectChildDimensionsWithGroups(_, _, _)
collectChildDimensionsWithGroups(children, i, dimensions) ==
    IF i > Len(children) THEN dimensions
    ELSE collectChildDimensionsWithGroups(children, i + 1,
             collectNodeDimensionsWithGroups(children[i], dimensions))

collectNodeDimensionsWithGroups(lay, dimensions) ==
    collectChildDimensionsWithGroups(lay.children, 1,
        MapSet(dimensions, lay.id, lay.dimensions))

\* collectNodeDimensions into the Record<string, NodeDimensions>
RECURSIVE collectNodeDimensions(_, _)
RECURSIVE collectChildDimensions(_, _, _)
collectChildDimensions(children, i, dimensions) ==
    IF i > Len(children) THEN dimensions
    ELSE collectChildDimensions(children, i + 1,
                                collectNodeDimensions(children[i], dimensions))

collectNodeDimensions(lay, dimensions) ==
    collectChildDimensions(lay.children, 1,
        IF isContainer(lay.node) THEN MapSet(dimensions, lay.node.id, lay.dimensions)
        ELSE dimensions)

\* a canvas that takes the edges of the last root alone
RECURSIVE calculateCanvasSizeOfLastRoot(_, _, _)
calculateCanvasSizeOfLastRoot(rootLayouts, i, acc) ==
    IF Len(rootLayouts) = 0 THEN [canvasWidth |-> 0, canvasHeight |-> 0]
    ELSE LET d == rootLayouts[Len(rootLayouts)].dimensions
         IN  [canvasWidth |-> d.x + d.width, canvasHeight |-> d.y + d.height]

\* calculateCanvasSize from rootLayouts[i] on
RECURSIVE calculateCanvasSize(_, _, _)
calculateCanvasSize(rootLayouts, i, acc) ==
    IF i > Len(rootLayouts) THEN acc
    ELSE LET d == rootLayouts[i].dimensions
         IN  calculateCanvasSize(rootLayouts, i + 1,
                 [canvasWidth |-> MaxOf(acc.canvasWidth, d.x + d.width),
                  canvasHeight |-> MaxOf(acc.canvasHeight, d.y + d.height)])

AnchorPosition(x, y, nodeId, anchorId) ==
    [x |-> x, y |-> y, nodeId |-> nodeId, anchorId |-> anchorId]

RECURSIVE customAnchors(_, _, _, _)
customAnchors(id, anchors, i, d) ==
    IF i > Len(anchors) THEN <<>>
    ELSE LET relativeX == anchors[i].coord[1]
             relativeY == anchors[i].coord[2]
         IN  (IF relativeX < 0 \/ relativeX > Milli \/ relativeY < 0 \/ relativeY > Milli
              THEN <<>>
              ELSE <<AnchorPosition(d.x + Scale(d.width, relativeX),
                                    d.y + Scale(d.height, relativeY), id, anchors[i].name)>>)
             \o customAnchors(id, anchors, i + 1, d)

resolveNodeAnchors(node, d) ==
    <<AnchorPosition(d.x + Scale(d.width, 500), d.y + Scale(d.height, 500),
                     node.id, StrCenter)>>
    \o (IF Has(node, "anchors") THEN customAnchors(node.id, node.anchors, 1, d) ELSE <<>>)

RECURSIVE collectNodeAnchors(_, _, _)
collectNodeAnchors(nodes, i, nodeDimensions) ==
    IF i > Len(nodes) THEN <<>>
    ELSE LET node == nodes[i]
         IN  (IF isContainer(node) /\ MapHas(nodeDimensions, node.id)
              THEN resolveNodeAnchors(node, MapGet(nodeDimensions, node.id))
              ELSE <<>>)
             \o collectNodeAnchors(node.children, 1, nodeDimensions)
             \o collectNodeAnchors(nodes, i + 1, nodeDimensions)

\* Phase 1 of calculateLayout: rootLayouts with their dimensions
RECURSIVE layoutPhase1(_, _, _, _)
layoutPhase1(nodes, i, fontSize, rnd) ==
    IF i > Len(nodes) THEN <<>>
    ELSE <<calculateDimensions(buildLayoutTree(nodes[i], <<>>, rnd), fontSize)>>
         \o layoutPhase1(nodes, i + 1, fontSize, After(rnd, GroupCount(nodes[i])))

\* Phase 2: position each root and collect its dimensions; acc = [roots, dims]
RECURSIVE layoutPhase2(_, _, _, _)
layoutPhase2(rootLayouts, i, currentX, acc) ==
    IF i > Len(rootLayouts) THEN acc
    ELSE LET lay == positionNodes(rootLayouts[i], currentX, 0)
         IN  layoutPhase2(rootLayouts, i + 1, currentX + lay.dimensions.width,
                          [roots |-> Append(acc.roots, lay),
                           dims |-> collectNodeDimensions(lay, acc.dims)])

\* LayoutEngine.calculateLayout as a function of the document
calculateLayout(doc, fontSize, rnd) ==
    LET phase2 == layoutPhase2(layoutPhase1(doc.nodes, 1, fontSize, rnd), 1, 0,
                               [roots |-> <<>>, dims |-> <<>>])
        canvas == calculateCanvasSize(phase2.roots, 1, [canvasWidth |-> 0, canvasHeight |-> 0])
    IN  [nodeDimensions |-> phase2.dims,
         anchorPositions |-> collectNodeAnchors(doc.nodes, 1, phase2.dims),
         canvasWidth |-> canvas.canvasWidth,
         canvasHeight |-> canvas.canvasHeight]

(***************************************************************************)
(* SVG generator.  The SVG text is kept as its structure: the canvas size, *)
(* the rect / text elements of the nodes and the line elements of the      *)
(* arrows, each in output order.                                           *)
(***************************************************************************)
\* text.split('\n')
RECURSIVE SplitLines(_, _, _)
SplitLines(text, i, cur) ==
    IF i > Len(text) THEN <<cur>>
    ELSE IF text[i] = NL THEN <<cur>> \o SplitLines(text, i + 1, <<>>)
    ELSE SplitLines(text, i + 1, Append(cur, text[i]))

EscapeChar(char) ==
    CASE char = "&" -> <<"&", "a", "m", "p", ";">>
      [] char = "<" -> <<"&", "l", "t", ";">>
      [] char = ">" -> <<"&", "g", "t", ";">>
      [] char = QUOTE -> <<"&", "q", "u", "o", "t", ";">>
      [] char = "'" -> <<"&", "#", "3", "9", ";">>
      [] OTHER -> <<char>>

RECURSIVE escapeXml(_)
escapeXml(text) ==
    IF Len(text) = 0 THEN <<>> ELSE EscapeChar(text[1]) \o escapeXml(Tail(text))

generateNodeRect(d) ==
    [kind |-> "rect", x |-> d.x, y |-> d.y, width |-> d.width, height |-> d.height]

\* generateNodeText: y is centerY for one line, startY for several
\* (this.fontSize * 1.2 per line, halved)
generateNodeText(label, d, fontSize) ==
    LET centerX == d.x + d.width \div 2
        centerY == d.y + d.height \div 2
        lines == SplitLines(label, 1, <<>>)
    IN  [kind |-> "text",
         x |-> centerX,
         y |-> centerY - ((Len(lines) - 1) * fontSize * 12 * PxUnit) \div 20,
         fontSize |-> fontSize,
         lines |-> [i \in 1..Len(lines) |-> escapeXml(lines[i])]]

RECURSIVE collectNodeElements(_, _, _, _)
collectNodeElements(nodes, i, lay, fontSize) ==
    IF i > Len(nodes) THEN <<>>
    ELSE LET node == nodes[i]
         IN  (IF isContainer(node) /\ MapHas(lay.nodeDimensions, node.id)
              THEN LET d == MapGet(lay.nodeDimensions, node.id)
                   IN  <<generateNodeRect(d)>>
                       \o (IF Has(node, "label") /\ Len(node.label) > 0
                           THEN <<generateNodeText(node.label, d, fontSize)>>
                           ELSE <<>>)
              ELSE <<>>)
             \o collectNodeElements(node.children, 1, lay, fontSize)
             \o collectNodeElements(nodes, i + 1, lay, fontSize)

\* parseTarget: [nodePath, anchorId], anchorId 'center' without a '#'
parseTarget(target) ==
    IF HashIndex(target) = 0 THEN [nodePath |-> target, anchorId |-> StrCenter]
    ELSE parseNodePathWithAnchor(target)

\* a lookup that matches the node path alone
findAnchorPositionOfNode(anchorPositions, nodePath, anchorId) ==
    LET hits == { i \in 1..Len(anchorPositions) : anchorPositions[i].nodeId = nodePath }
    IN  IF hits = {} THEN None
        ELSE Some(anchorPositions[CHOOSE i \in hits : \A j \in hits : i <= j])

\* findAnchorPosition: the first match, or None
findAnchorPosition(anchorPositions, nodePath, anchorId) ==
    LET hits == { i \in 1..Len(anchorPositions) :
                    /\ anchorPositions[i].nodeId = nodePath
                    /\ anchorPositions[i].anchorId = anchorId }
    IN  IF hits = {} THEN None
        ELSE Some(anchorPositions[CHOOSE i \in hits : \A j \in hits : i <= j])

\* generateArrow: the line element, or nothing when an anchor is missing
generateArrow(arrow, lay) ==
    LET src == parseTarget(arrow.source)
        tgt == parseTarget(arrow.target)
        sourceAnchor == findAnchorPosition(lay.anchorPositions, src.nodePath, src.anchorId)
        targetAnchor == findAnchorPosition(lay.anchorPositions, tgt.nodePath, tgt.anchorId)
    IN  IF sourceAnchor = None \/ targetAnchor = None THEN <<>>
        ELSE <<[kind |-> "line",
                x1 |-> sourceAnchor[1].x, y1 |-> sourceAnchor[1].y,
                x2 |-> targetAnchor[1].x, y2 |-> targetAnchor[1].y]>>

RECURSIVE generateArrows(_, _, _)
generateArrows(arrows, i, lay) ==
    IF i > Len(arrows) THEN <<>>
    ELSE generateArrow(arrows[i], lay) \o generateArrows(arrows, i + 1, lay)

generateSVG(doc, lay, fontSize) ==
    [width |-> lay.canvasWidth,
     height |-> lay.canvasHeight,
     nodes |-> collectNodeElements(doc.nodes, 1, lay, fontSize),
     arrows |-> generateArrows(doc.arrows, 1, lay)]

(***************************************************************************)
(* Documents handed to validate and calculateLayout directly.  A document  *)
(* is an ordered forest of at most MaxNodes nodes whose top level holds    *)
(* ContainerNodes only (Document.nodes : ContainerNode[]).                 *)
(***************************************************************************)
MaxNodes == 4

MaxLayoutNodes == 3

StrA == <<"a">>

StrB == <<"b">>

StrT == <<"t">>

StrHello == <<"h", "e", "l", "l", "o">>

StrTwoLines == <<"x", NL, "y">>

\* the node of one kind over the children `kids`
MakeNode(kind, kids) ==
    CASE kind = "a" -> [id |-> StrA, children |-> kids]
      [] kind = "b" -> [id |-> StrB, children |-> kids,
                        anchors |-> <<[name |-> StrT, coord |-> <<500, 0>>]>>]
      [] kind = "group" -> [children |-> kids]
      [] kind = "wide" -> [id |-> StrB, children |-> kids, label |-> StrHello]
      [] kind = "tall" -> [id |-> StrA, children |-> kids, label |-> StrTwoLines]
      [] kind = "row" -> [id |-> StrA, children |-> kids, direction |-> "horizontal"]
      [] kind = "half" -> [id |-> StrB, children |-> kids, size |-> 500]
      [] kind = "halfrow" -> [id |-> StrB, children |-> kids,
                              direction |-> "horizontal", size |-> 500]
      [] kind = "grouprow" -> [children |-> kids, direction |-> "horizontal"]
      [] kind = "out" -> [id |-> StrA, children |-> kids,
                          anchors |-> <<[name |-> <<"u">>, coord |-> <<1500, 500>>],
                                        [name |-> StrT, coord |-> <<0, 1000>>],
                                        [name |-> <<"v">>, coord |-> <<250, 0 - 100>>]>>]
      [] kind = "zero" -> [id |-> StrA, children |-> kids, size |-> 0]
      [] kind = "big" -> [id |-> StrB, children |-> kids, size |-> 1500,
                          anchors |-> <<[name |-> <<"w">>, coord |-> <<2000, 2000>>]>>]

GroupKinds == {"group", "grouprow"}

ValidatorKinds == {"a", "b", "group"}

\* kinds with a size and anchor coordinates outside [0.0, 1.0]
ConstraintKinds == {"a", "out", "big", "group"}

LayoutKinds ==
    {"a", "b", "wide", "tall", "row", "half", "halfrow", "zero", "group", "grouprow", "out"}

\* the ordered forests / trees of exactly n nodes over the kinds
RECURSIVE ForestsOf(_, _)
RECURSIVE TreesOf(_, _)
ForestsOf(kinds, n) ==
    IF n = 0 THEN {<<>>}
    ELSE UNION { { <<t>> \o f : t \in TreesOf(kinds, k), f \in ForestsOf(kinds, n - k) } :
                 k \in 1..n }

TreesOf(kinds, n) ==
    { MakeNode(kind, kids) : kind \in kinds, kids \in ForestsOf(kinds, n - 1) }

\* Document.nodes of exactly n nodes: ContainerNodes on top
RECURSIVE TopForestsOf(_, _)
TopForestsOf(kinds, n) ==
    IF n = 0 THEN {<<>>}
    ELSE UNION { { <<MakeNode(kind, kids)>> \o f :
                     kind \in kinds \ GroupKinds,
                     kids \in ForestsOf(kinds, k - 1),
                     f \in TopForestsOf(kinds, n - k) } :
                 k \in 1..n }

DocumentNodes(kinds, max) == UNION { TopForestsOf(kinds, n) : n \in 0..max }

\* arrow endpoints as the strings Arrow.source / Arrow.target hold
Endpoints ==
    { StrA, StrB,
      <<"a", ".", "b">>, <<"b", ".", "a">>,
      <<"a", "#", "t">>, <<"b", "#", "t">>,
      <<"b", "#", "c", "e", "n", "t", "e", "r">>,
      <<"b", "#", "v", "a", "l", "u", "e", "O", "f">>,
      <<"a", ".", "b", "#", "t">>,
      <<"a", ".", "g", "r", "o", "u", "p", ".", "b">>,
      <<"a", ".", "g", "r", "o", "u", "p", ".", "a">> }

Arrows == { [source |-> s, target |-> t] : s \in Endpoints, t \in Endpoints }

ValidatorDocuments ==
    { [nodes |-> f, arrows |-> <<>>] : f \in DocumentNodes(ValidatorKinds, MaxNodes) }
    \cup { [nodes |-> f, arrows |-> <<a>>] :
             f \in DocumentNodes(ValidatorKinds, MaxNodes - 1), a \in Arrows }
    \cup { [nodes |-> <<MakeNode("a", <<MakeNode("group", <<MakeNode(k1, <<>>),
                                                            MakeNode(k2, <<>>)>>)>>)>>,
            arrows |-> <<a>>] :
             k1 \in {"a", "b"}, k2 \in {"a", "b"}, a \in Arrows }
    \cup { [nodes |-> f, arrows |-> l] :
             f \in DocumentNodes(ConstraintKinds, MaxNodes - 1),
             l \in { <<>>,
                     <<[source |-> <<"a", "#", "t">>, target |-> <<"a", ".", "b">>]>>,
                     <<[source |-> <<"b", ".", "a">>, target |-> <<"b", "#", "t">>],
                       [source |-> <<"a", "#", "t">>, target |-> StrB]>> } }

LayoutDocuments ==
    { [nodes |-> f, arrows |-> <<>>] : f \in DocumentNodes(LayoutKinds, MaxLayoutNodes) }

EmptyDocument == [nodes |-> <<>>, arrows |-> <<>>]

EmptyLayout ==
    [rootLayouts |-> <<>>, nodeDimensions |-> <<>>, anchorPositions |-> <<>>,
     canvasWidth |-> 0, canvasHeight |-> 0]

Options(validateOnly, fontSize) == [validateOnly |-> validateOnly, fontSize |-> fontSize]

\* the state of a process that is not in watch mode
NotWatching ==
    [now |-> 0, processingTimeout |-> None, timers |-> {}, changes |-> <<>>,
     regenerated |-> <<>>, reads |-> 0, adds |-> <<>>, runs |-> <<>>, output |-> None]

\* no earlier call of parseArkitecture / calculateLayout on the same argument
NoEarlierCall == [parse |-> None, layout |-> None]

(***************************************************************************)
(* validate(document): new Validator(document).validate(), one action per  *)
(* statement of Validator.validate                                         *)
(***************************************************************************)
InitValidate ==
    /\ pc = "validate"
    /\ document \in ValidatorDocuments
    /\ input = <<>> /\ position = 0 /\ line = 1 /\ column = 1
    /\ tokens = <<>> /\ current = 0 /\ errors = <<>> /\ stack = <<>>
    /\ parseResult = None
    /\ options = Options(FALSE, None)
    /\ nodeMap = <<>> /\ valErrors = <<>>
    /\ layout = EmptyLayout
    /\ result = None
    /\ previous = NoEarlierCall
    /\ watch = NotWatching

\* this.errors = []; this.nodeMap.clear(); this.buildNodeMap()
BuildNodeMap ==
    /\ pc = "validate"
    /\ valErrors' = <<>>
    /\ nodeMap' = buildNodeMap(document)
    /\ pc' = "validateNodeIdUniqueness"
    /\ UNCHANGED <<previous, watch, input, position, line, column, tokens, current, errors, stack,
                   parseResult, document, options, layout, result>>

ValidateNodeIdUniqueness ==
    /\ pc = "validateNodeIdUniqueness"
    /\ valErrors' = valErrors \o validateNodeIdUniqueness(document)
    /\ pc' = "validateArrowReferences"
    /\ UNCHANGED <<previous, watch, input, position, line, column, tokens, current, errors, stack,
                   parseResult, document, options, nodeMap, layout, result>>

ValidateArrowReferences ==
    /\ pc = "validateArrowReferences"
    /\ valErrors' = valErrors \o validateArrowReferences(nodeMap, document)
    /\ pc' = "validateAnchorReferences"
    /\ UNCHANGED <<previous, watch, input, position, line, column, tokens, current, errors, stack,
                   parseResult, document, options, nodeMap, layout, result>>

ValidateAnchorReferences ==
    /\ pc = "validateAnchorReferences"
    /\ valErrors' = valErrors \o validateAnchorReferences(nodeMap, document)
    /\ pc' = "validateConstraints"
    /\ UNCHANGED <<previous, watch, input, position, line, column, tokens, current, errors, stack,
                   parseResult, document, options, nodeMap, layout, result>>

\* this.validateConstraints(); return this.errors
ValidateConstraints ==
    /\ pc = "validateConstraints"
    /\ valErrors' = valErrors \o validateConstraints(document)
    /\ pc' = "validated"
    /\ UNCHANGED <<previous, watch, input, position, line, column, tokens, current, errors, stack,
                   parseResult, document, options, nodeMap, layout, result>>

NextValidate ==
    \/ BuildNodeMap
    \/ ValidateNodeIdUniqueness
    \/ ValidateArrowReferences
    \/ ValidateAnchorReferences
    \/ ValidateConstraints

SpecValidate == InitValidate /\ [][NextValidate]_vars

(***************************************************************************)
(* calculateLayout(document, textMeasurement): one action per phase of     *)
(* LayoutEngine.calculateLayout                                            *)
(***************************************************************************)
LargeFontSize == 16

FontSizes == {None, Some(LargeFontSize)}

\* what the successive Math.random().toString(36).substr(2, 9) of one run
\* may give
RandomSuffixes ==
    { <<r1, r2>> : r1 \in { <<"k", "3">>, <<"z", "7">> }, r2 \in { <<"k", "3">>, <<"z", "7">> } }

SomeRandoms == CHOOSE rnd \in RandomSuffixes : TRUE

\* createTextMeasurement(options): the font size the engine measures with
FontSizeOf(opts) == IF opts.fontSize = None THEN DefaultFontSize ELSE opts.fontSize[1]

InitLayout ==
    /\ pc = "layout"
    /\ document \in LayoutDocuments
    /\ options \in { Options(FALSE, f) : f \in FontSizes }
    /\ input = <<>> /\ position = 0 /\ line = 1 /\ column = 1
    /\ tokens = <<>> /\ current = 0 /\ errors = <<>> /\ stack = <<>>
    /\ parseResult = None
    /\ nodeMap = <<>> /\ valErrors = <<>>
    /\ layout = EmptyLayout
    /\ result = None
    /\ previous = NoEarlierCall
    /\ watch = NotWatching

\* Phase 1: Build layout tree and calculate dimensions bottom-up
LayoutBuildAndMeasure ==
    /\ pc = "layout"
    /\ \E rnd \in RandomSuffixes :
           layout' = [EmptyLayout EXCEPT
                          !.rootLayouts = layoutPhase1(document.nodes, 1,
                                                       FontSizeOf(options), rnd)]
    /\ pc' = "positionNodes"
    /\ UNCHANGED <<previous, watch, input, position, line, column, tokens, current, errors, stack,
                   parseResult, document, options, nodeMap, valErrors, result>>

\* Phase 2: Position nodes top-down
LayoutPosition ==
    /\ pc = "positionNodes"
    /\ LET phase2 == layoutPhase2(layout.rootLayouts, 1, 0, [roots |-> <<>>, dims |-> <<>>])
       IN  layout' = [layout EXCEPT !.rootLayouts = phase2.roots,
                                    !.nodeDimensions = phase2.dims]
    /\ pc' = "calculateCanvasSize"
    /\ UNCHANGED <<previous, watch, input, position, line, column, tokens, current, errors, stack,
                   parseResult, document, options, nodeMap, valErrors, result>>

\* Phase 3: Calculate canvas size
LayoutCanvasSize ==
    /\ pc = "calculateCanvasSize"
    /\ LET canvas == calculateCanvasSize(layout.rootLayouts, 1,
                                         [canvasWidth |-> 0, canvasHeight |-> 0])
       IN  layout' = [layout EXCEPT !.canvasWidth = canvas.canvasWidth,
                                    !.canvasHeight = canvas.canvasHeight]
    /\ pc' = "calculateAnchorPositions"
    /\ UNCHANGED <<previous, watch, input, position, line, column, tokens, current, errors, stack,
                   parseResult, document, options, nodeMap, valErrors, result>>

\* Phase 4: Calculate anchor positions, and return the LayoutResult
LayoutAnchorPositions ==
    /\ pc = "calculateAnchorPositions"
    /\ layout' = [layout EXCEPT
                      !.anchorPositions = collectNodeAnchors(document.nodes, 1,
                                                             layout.nodeDimensions)]
    /\ pc' = "laidOut"
    /\ UNCHANGED <<previous, watch, input, position, line, column, tokens, current, errors, stack,
                   parseResult, document, options, nodeMap, valErrors, result>>

\* the LayoutResult that calculateLayout returns
LayoutResult(lay) ==
    [nodeDimensions |-> lay.nodeDimensions, anchorPositions |-> lay.anchorPositions,
     canvasWidth |-> lay.canvasWidth, canvasHeight |-> lay.canvasHeight]

\* calculateLayout is called once more on the same document, with the same
\* engine and text measurer
LayoutAgain ==
    /\ pc = "laidOut"
    /\ previous.layout = None
    /\ previous' = [previous EXCEPT !.layout = Some(LayoutResult(layout))]
    /\ layout' = EmptyLayout
    /\ pc' = "layout"
    /\ UNCHANGED <<input, position, line, column, tokens, current, errors, stack,
                   parseResult, document, options, nodeMap, valErrors, result, watch>>

NextLayout ==
    \/ LayoutBuildAndMeasure
    \/ LayoutPosition
    \/ LayoutCanvasSize
    \/ LayoutAnchorPositions
    \/ LayoutAgain

SpecLayout == InitLayout /\ [][NextLayout]_vars

(***************************************************************************)
(* Source texts given to arkitectureToSVG: up to MaxStatements statements, *)
(* one per line, and the concatenations of up to MaxLexemes lexemes.       *)
(***************************************************************************)
MaxStatements == 2

MaxLexemes == 3

\* well-formed top-level node declarations
NodeStatements ==
    { <<"a", "{", "}">>,
      <<"b", "{", "}">>,
      <<"a", "{", "b", "{", "}", "}">>,
      <<"a", "{", "l", "a", "b", "e", "l", ":", QUOTE, "h", "i", QUOTE,
        "}">>,
      <<"b", "{", "d", "i", "r", "e", "c", "t", "i", "o", "n", ":", "h",
        "o", "r", "i", "z", "o", "n", "t", "a", "l", " ", "a", "{", "}",
        " ", "b", "{", "}", "}">>,
      <<"a", "{", "s", "i", "z", "e", ":", "0", ".", "5", " ", "b", "{",
        "}", "}">>,
      <<"a", "{", "a", "n", "c", "h", "o", "r", "s", ":", "{", "t", ":",
        "[", "0", ".", "5", ",", "0", "]", "}", "}">>,
      <<"a", "{", "g", "r", "o", "u", "p", "{", "b", "{", "}", "}", "}">>,
      <<"a", "{", "l", "a", "b", "e", "l", ":", QUOTE, "x", NL, "y", QUOTE,
        "}">> }

StrArrow == <<"-", "-", ">">>

\* the endpoints of the arrow statements `source-->target`
ArrowStatements ==
    { [source |-> StrA, target |-> StrB],
      [source |-> <<"a", ".", "b", "#", "t">>, target |-> StrB],
      [source |-> StrB, target |-> <<"a", "#", "c", "e", "n", "t", "e", "r">>] }

ArrowText(arrow) == arrow.source \o StrArrow \o arrow.target

\* declarations with errors, a comment, and text the tokenizer rejects
OtherStatements ==
    { <<"a", "{", "s", "i", "z", "e", ":", "2", "}">>,
      <<"a", "{", "a", "n", "c", "h", "o", "r", "s", ":", "{", "t", ":",
        "[", "0", ",", "0", "]", ",", "t", ":", "[", "1", ",", "1", "]",
        "}", "}">>,
      <<"a", "{", "g", "r", "o", "u", "p", "{", "b", "{", "}", "b", "{",
        "}", "}", "}">>,
      <<"a", " ", "b">>,
      <<"a", "{">>,
      <<QUOTE, "x">>,
      <<"@">>,
      <<"#", " ", "c">>,
      <<"a", "{", "l", "a", "b", "e", "l", ":", "1", "}">>,
      <<"g", "r", "o", "u", "p", "{", "a", "{", "}", "}">>,
      <<"a", "{", "a", "n", "c", "h", "o", "r", "s", ":", "{", "v", "a",
        "l", "u", "e", "O", "f", ":", "[", "0", ",", "0", "]", "}", "}">>,
      <<"a", "{", "s", "i", "z", "e", ":", "-", "0", ".", "1", "}">>,
      <<"a", "{", "a", "n", "c", "h", "o", "r", "s", ":", "{", "t", ":", "[">> }

Statements == NodeStatements \cup { ArrowText(a) : a \in ArrowStatements } \cup OtherStatements

Lexemes ==
    { <<"a">>, <<"{">>, <<"}">>, <<":">>, <<NL>>, <<"#">>, StrArrow, <<QUOTE>>,
      <<"1">>, <<".">>, <<"@">>, <<" ">> }

\* the sequences of at most n elements of S
UpTo(S, n) == UNION { [1..k -> S] : k \in 0..n }

RECURSIVE JoinLines(_)
JoinLines(ss) ==
    IF Len(ss) = 0 THEN <<>>
    ELSE IF Len(ss) = 1 THEN ss[1]
    ELSE ss[1] \o <<NL>> \o JoinLines(Tail(ss))

RECURSIVE Concat(_)
Concat(ss) == IF Len(ss) = 0 THEN <<>> ELSE ss[1] \o Concat(Tail(ss))

Inputs ==
    { JoinLines(ss) : ss \in UpTo(Statements, MaxStatements) }
    \cup { Concat(ls) : ls \in UpTo(Lexemes, MaxLexemes) }

(***************************************************************************)
(* arkitectureToSVG(dslContent, options): tokenize, parse, validate, lay   *)
(* out, render.  Nothing in these steps throws except the tokenizer, whose *)
(* TokenizerError parseArkitecture catches; the catch-alls of              *)
(* parseDocument and arkitectureToSVG are never entered.                   *)
(***************************************************************************)
Init ==
    /\ pc = "tokenize"
    /\ input \in Inputs
    /\ options \in { Options(v, None) : v \in BOOLEAN }
    /\ position = 0 /\ line = 1 /\ column = 1
    /\ tokens = <<>> /\ current = 0 /\ errors = <<>> /\ stack = <<>>
    /\ parseResult = None
    /\ document = EmptyDocument
    /\ nodeMap = <<>> /\ valErrors = <<>>
    /\ layout = EmptyLayout
    /\ result = None
    /\ previous = NoEarlierCall
    /\ watch = NotWatching

ScanState == [position |-> position, line |-> line, column |-> column]

\* one iteration of the loop of Tokenizer.tokenize whose nextToken returns
TokenizerNextToken ==
    /\ pc = "tokenize"
    /\ ~TokIsAtEnd(input, ScanState)
    /\ LET r == nextToken(input, ScanState)
       IN  /\ r.err = None
           /\ tokens' = tokens \o r.tok
           /\ position' = r.s.position /\ line' = r.s.line /\ column' = r.s.column
    /\ UNCHANGED <<previous, watch, pc, input, current, errors, stack, parseResult, document, options,
                   nodeMap, valErrors, layout, result>>

\* nextToken throws a TokenizerError: tokenize returns no tokens and
\* parseArkitecture returns the failure
TokenizerThrow ==
    /\ pc = "tokenize"
    /\ ~TokIsAtEnd(input, ScanState)
    /\ LET r == nextToken(input, ScanState)
       IN  /\ r.err # None
           /\ tokens' = <<>>
           /\ position' = r.s.position /\ line' = r.s.line /\ column' = r.s.column
           /\ parseResult' = Some(tokenizerFailure(r.err[1]))
    /\ pc' = "parsed"
    /\ UNCHANGED <<previous, watch, input, current, errors, stack, document, options,
                   nodeMap, valErrors, layout, result>>

\* the loop of tokenize ends: push EOF; new Parser(tokens).parseDocument() begins
TokenizerFinish ==
    /\ pc = "tokenize"
    /\ TokIsAtEnd(input, ScanState)
    /\ tokens' = Append(tokens, EOFToken(ScanState))
    /\ current' = ParserStart.p.current
    /\ errors' = ParserStart.p.errors
    /\ stack' = ParserStart.stack
    /\ pc' = "parse"
    /\ UNCHANGED <<previous, watch, input, position, line, column, parseResult, document, options,
                   nodeMap, valErrors, layout, result>>

ParserState == [current |-> current, errors |-> errors]

\* the parser takes the step r
ParserTakes(r) ==
    /\ current' = r.p.current
    /\ errors' = r.p.errors
    /\ stack' = r.stack
    /\ UNCHANGED <<previous, watch, pc, input, position, line, column, tokens, parseResult, document,
                   options, nodeMap, valErrors, layout, result>>

ParseNodes ==
    /\ pc = "parse"
    /\ Top(stack).fn = "parseNodes"
    /\ ~PIsAtEnd(tokens, ParserState)
    /\ ParserTakes(parseNodesStep(tokens, ParserState, stack))

ParseNodeContent ==
    /\ pc = "parse"
    /\ Top(stack).fn = "parseNode"
    /\ ParserTakes(parseNodeContentStep(tokens, ParserState, stack))

ParseGroupContent ==
    /\ pc = "parse"
    /\ Top(stack).fn = "parseGroup"
    /\ ParserTakes(parseGroupContentStep(tokens, ParserState, stack))

ParseAnchors ==
    /\ pc = "parse"
    /\ Top(stack).fn = "parseAnchors"
    /\ ParserTakes(parseAnchorsStep(tokens, ParserState, stack))

\* parseNodes returns; parseDocument returns its ParseResult
ParseDocumentReturn ==
    /\ pc = "parse"
    /\ ParserDone(tokens, ParserState, stack)
    /\ parseResult' = Some(parseDocumentResult(Top(stack).val, errors))
    /\ pc' = "parsed"
    /\ UNCHANGED <<previous, watch, input, position, line, column, tokens, current, errors, stack,
                   document, options, nodeMap, valErrors, layout, result>>

\* parseArkitecture is called once more on the same text: a new Tokenizer
\* and a new Parser
ParseAgain ==
    /\ pc = "parsed"
    /\ previous.parse = None
    /\ previous' = [previous EXCEPT !.parse = parseResult]
    /\ position' = 0 /\ line' = 1 /\ column' = 1
    /\ tokens' = <<>> /\ current' = 0 /\ errors' = <<>> /\ stack' = <<>>
    /\ parseResult' = None
    /\ pc' = "tokenize"
    /\ UNCHANGED <<input, document, options, nodeMap, valErrors, layout, result, watch>>

\* the test of the parse result looking at the document only
parseFailedIgnoringSuccess(r) == ~Has(r, "document")

\* if (!parseResult.success || !parseResult.document)
parseFailed(r) == ~r.success \/ ~Has(r, "document")

ReturnParseErrors ==
    /\ pc = "parsed"
    /\ parseFailed(parseResult[1])
    /\ result' = Some([success |-> FALSE, errors |-> parseResult[1].errors])
    /\ pc' = "done"
    /\ UNCHANGED <<previous, watch, input, position, line, column, tokens, current, errors, stack,
                   parseResult, document, options, nodeMap, valErrors, layout>>

\* validateDocument(parseResult.document) is called
StartValidate ==
    /\ pc = "parsed"
    /\ ~parseFailed(parseResult[1])
    /\ document' = parseResult[1].document
    /\ pc' = "validate"
    /\ UNCHANGED <<previous, watch, input, position, line, column, tokens, current, errors, stack,
                   parseResult, options, nodeMap, valErrors, layout, result>>

ReturnValidationErrors ==
    /\ pc = "validated"
    /\ Len(valErrors) > 0
    /\ result' = Some([success |-> FALSE, errors |-> valErrors])
    /\ pc' = "done"
    /\ UNCHANGED <<previous, watch, input, position, line, column, tokens, current, errors, stack,
                   parseResult, document, options, nodeMap, valErrors, layout>>

ReturnValidateOnly ==
    /\ pc = "validated"
    /\ Len(valErrors) = 0
    /\ options.validateOnly
    /\ result' = Some([success |-> TRUE, errors |-> <<>>])
    /\ pc' = "done"
    /\ UNCHANGED <<previous, watch, input, position, line, column, tokens, current, errors, stack,
                   parseResult, document, options, nodeMap, valErrors, layout>>

\* calculateLayout(parseResult.document, textMeasurement) is called
StartLayout ==
    /\ pc = "validated"
    /\ Len(valErrors) = 0
    /\ ~options.validateOnly
    /\ pc' = "layout"
    /\ UNCHANGED <<previous, watch, input, position, line, column, tokens, current, errors, stack,
                   parseResult, document, options, nodeMap, valErrors, layout, result>>

\* this.fontSize = options?.fontSize || 12
SvgFontSize(opts) == IF opts.fontSize = None THEN DefaultFontSize ELSE opts.fontSize[1]

GenerateSVG ==
    /\ pc = "laidOut"
    /\ result' = Some([success |-> TRUE,
                       svg |-> generateSVG(document, layout, SvgFontSize(options)),
                       errors |-> <<>>])
    /\ pc' = "done"
    /\ UNCHANGED <<previous, watch, input, position, line, column, tokens, current, errors, stack,
                   parseResult, document, options, nodeMap, valErrors, layout>>

Next ==
    \/ TokenizerNextToken
    \/ TokenizerThrow
    \/ TokenizerFinish
    \/ ParseNodes
    \/ ParseNodeContent
    \/ ParseGroupContent
    \/ ParseAnchors
    \/ ParseDocumentReturn
    \/ ParseAgain
    \/ ReturnParseErrors
    \/ StartValidate
    \/ BuildNodeMap
    \/ ValidateNodeIdUniqueness
    \/ ValidateArrowReferences
    \/ ValidateAnchorReferences
    \/ ValidateConstraints
    \/ ReturnValidationErrors
    \/ ReturnValidateOnly
    \/ StartLayout
    \/ LayoutBuildAndMeasure
    \/ LayoutPosition
    \/ LayoutCanvasSize
    \/ LayoutAnchorPositions
    \/ LayoutAgain
    \/ GenerateSVG

Spec == Init /\ [][Next]_vars

(***************************************************************************)
(* generateSVG(document, options): the exported function that lays the     *)
(* document out and renders it without validating it first, so arrows may  *)
(* name endpoints the layout does not hold.                                *)
(***************************************************************************)
MaxSvgNodes == 2

MaxArrows == 2

SvgKinds == {"a", "b", "group"}

SvgEndpoints ==
    { StrA, StrB, <<"a", ".", "b">>, <<"a", "#", "t">>, <<"b", "#", "t">>,
      <<"b", "#", "c", "e", "n", "t", "e", "r">> }

SvgArrows == { [source |-> s, target |-> t] : s \in SvgEndpoints, t \in SvgEndpoints }

\* the sequences of at most n arrows
RECURSIVE ArrowLists(_)
ArrowLists(n) ==
    IF n = 0 THEN {<<>>}
    ELSE ArrowLists(n - 1)
         \cup { Append(l, a) : l \in { k \in ArrowLists(n - 1) : Len(k) = n - 1 },
                               a \in SvgArrows }

SvgDocuments ==
    { [nodes |-> f, arrows |-> l] :
        f \in DocumentNodes(SvgKinds, MaxSvgNodes), l \in ArrowLists(MaxArrows) }

InitSvg ==
    /\ pc = "generateSVG"
    /\ document \in SvgDocuments
    /\ options = Options(FALSE, None)
    /\ input = <<>> /\ position = 0 /\ line = 1 /\ column = 1
    /\ tokens = <<>> /\ current = 0 /\ errors = <<>> /\ stack = <<>>
    /\ parseResult = None
    /\ nodeMap = <<>> /\ valErrors = <<>>
    /\ layout = EmptyLayout
    /\ result = None
    /\ previous = NoEarlierCall
    /\ watch = NotWatching

\* const layout = calculateLayout(document, textMeasurement)
SvgCalculateLayout ==
    /\ pc = "generateSVG"
    /\ \E rnd \in RandomSuffixes :
           layout' = calculateLayout(document, FontSizeOf(options), rnd)
                         @@ [rootLayouts |-> <<>>]
    /\ pc' = "generateSVGFromLayout"
    /\ UNCHANGED <<previous, watch, input, position, line, column, tokens, current, errors, stack,
                   parseResult, document, options, nodeMap, valErrors, result>>

\* return generateSVGFromLayout(document, layout, svgOptions)
SvgGenerate ==
    /\ pc = "generateSVGFromLayout"
    /\ result' = Some([svg |-> generateSVG(document, layout, SvgFontSize(options))])
    /\ pc' = "generated"
    /\ UNCHANGED <<previous, watch, input, position, line, column, tokens, current, errors, stack,
                   parseResult, document, options, nodeMap, valErrors, layout>>

NextSvg ==
    \/ SvgCalculateLayout
    \/ SvgGenerate

SpecSvg == InitSvg /\ [][NextSvg]_vars

(***************************************************************************)
(* CliApp.startWatchMode.  Time is in milliseconds.  A timer set with      *)
(* setTimeout(f, delay) runs f when the clock reaches its due time; the    *)
(* clock does not pass the due time of a pending timer.  Every             *)
(* regeneration reads the input file once (processFiles: fs.readFile).     *)
(***************************************************************************)
DebounceMs == 100

TickMs == 25

MaxTimeMs == 350

MaxChanges == 3

MaxAdds == 1

\* the 'change' handler without its clearTimeout
onChangeWithoutClear(w) ==
    LET handle == [id |-> Len(w.changes) + 1, due |-> w.now + DebounceMs]
    IN  [w EXCEPT !.processingTimeout = Some(handle),
                  !.timers = @ \cup {handle},
                  !.changes = Append(@, w.now)]

\* watcher.on('change', ...): clear the pending timeout, set a new one
onChange(w) ==
    LET handle == [id |-> Len(w.changes) + 1, due |-> w.now + DebounceMs]
        cleared == IF w.processingTimeout # None
                   THEN w.timers \ {w.processingTimeout[1]} ELSE w.timers
    IN  [w EXCEPT !.processingTimeout = Some(handle),
                  !.timers = cleared \cup {handle},
                  !.changes = Append(@, w.now)]

\* watcher.on('add', ...): set a timeout that nothing clears
onAdd(w) ==
    LET handle == [id |-> MaxChanges + Len(w.adds) + 1, due |-> w.now + DebounceMs]
    IN  [w EXCEPT !.timers = @ \cup {handle},
                  !.adds = Append(@, w.now)]

\* the handle was set by the 'change' handler
IsChangeHandle(handle) == handle.id <= MaxChanges

\* the content of the watched file: every 'change' and 'add' event is a new
\* content
FileContent(w) == Len(w.changes) + Len(w.adds)

\* processFileWithWatchHandling is called from a timer: processFiles runs up
\* to its first await, fs.readFile
startRun(w) ==
    [w EXCEPT !.runs = Append(@, [state |-> "readFile", content |-> 0]),
              !.reads = @ + 1]

\* the runs that have started and not yet returned
InProgress(w) == { i \in 1..Len(w.runs) : w.runs[i].state # "done" }

InitWatch ==
    /\ pc = "startWatchMode"
    /\ watch = NotWatching
    /\ document = EmptyDocument
    /\ options = Options(FALSE, None)
    /\ input = <<>> /\ position = 0 /\ line = 1 /\ column = 1
    /\ tokens = <<>> /\ current = 0 /\ errors = <<>> /\ stack = <<>>
    /\ parseResult = None
    /\ nodeMap = <<>> /\ valErrors = <<>>
    /\ layout = EmptyLayout
    /\ result = None
    /\ previous = NoEarlierCall

\* await this.processFileWithWatchHandling(...): the initial run, then the
\* watcher is set up (ignoreInitial)
WatchStart ==
    /\ pc = "startWatchMode"
    /\ watch' = [watch EXCEPT !.reads = 1, !.output = Some(FileContent(watch))]
    /\ pc' = "watching"
    /\ UNCHANGED <<input, position, line, column, tokens, current, errors, stack,
                   parseResult, document, options, nodeMap, valErrors, layout, result,
                   previous>>

\* a 'change' event of the watched file arrives
WatchChange ==
    /\ pc = "watching"
    /\ Len(watch.changes) < MaxChanges
    /\ watch' = onChange(watch)
    /\ UNCHANGED <<pc, input, position, line, column, tokens, current, errors, stack,
                   parseResult, document, options, nodeMap, valErrors, layout, result,
                   previous>>

\* a pending timer is due: "File changed, regenerating..."
WatchTimeout ==
    /\ pc = "watching"
    /\ \E handle \in watch.timers :
           /\ handle.due = watch.now
           /\ watch' = startRun([watch EXCEPT
                                     !.timers = @ \ {handle},
                                     !.regenerated = IF IsChangeHandle(handle)
                                                     THEN Append(@, watch.now) ELSE @])
    /\ UNCHANGED <<pc, input, position, line, column, tokens, current, errors, stack,
                   parseResult, document, options, nodeMap, valErrors, layout, result,
                   previous>>

\* time passes, up to the next due time at most
WatchTick ==
    /\ pc = "watching"
    /\ watch.now < MaxTimeMs
    /\ \A handle \in watch.timers : handle.due > watch.now
    /\ LET next == watch.now + TickMs
           dues == { handle.due : handle \in watch.timers }
       IN  watch' = [watch EXCEPT !.now =
                        IF \E d \in dues : d < next
                        THEN CHOOSE d \in dues : \A e \in dues : d <= e
                        ELSE next]
    /\ UNCHANGED <<pc, input, position, line, column, tokens, current, errors, stack,
                   parseResult, document, options, nodeMap, valErrors, layout, result,
                   previous>>

\* the fs.readFile of a run completes: arkitectureToSVG runs on the content
\* read, and processFiles goes on to its second await, fs.writeFile
WatchReadFileDone ==
    /\ pc = "watching"
    /\ \E i \in 1..Len(watch.runs) :
           /\ watch.runs[i].state = "readFile"
           /\ watch' = [watch EXCEPT !.runs[i] = [state |-> "writeFile",
                                                  content |-> FileContent(watch)]]
    /\ UNCHANGED <<pc, input, position, line, column, tokens, current, errors, stack,
                   parseResult, document, options, nodeMap, valErrors, layout, result,
                   previous>>

\* the fs.writeFile of a run completes: the output file holds its SVG, and
\* processFiles returns
WatchWriteFileDone ==
    /\ pc = "watching"
    /\ \E i \in 1..Len(watch.runs) :
           /\ watch.runs[i].state = "writeFile"
           /\ watch' = [watch EXCEPT !.runs[i].state = "done",
                                     !.output = Some(watch.runs[i].content)]
    /\ UNCHANGED <<pc, input, position, line, column, tokens, current, errors, stack,
                   parseResult, document, options, nodeMap, valErrors, layout, result,
                   previous>>

\* an 'add' event of the watched file arrives
WatchAdd ==
    /\ pc = "watching"
    /\ Len(watch.adds) < MaxAdds
    /\ watch' = onAdd(watch)
    /\ UNCHANGED <<pc, input, position, line, column, tokens, current, errors, stack,
                   parseResult, document, options, nodeMap, valErrors, layout, result,
                   previous>>

NextWatch ==
    \/ WatchStart
    \/ WatchChange
    \/ WatchTimeout
    \/ WatchTick
    \/ WatchReadFileDone
    \/ WatchWriteFileDone

SpecWatch == InitWatch /\ [][NextWatch]_vars

\* watch mode with 'change' and 'add' events
NextWatchAdd ==
    \/ WatchStart
    \/ WatchChange
    \/ WatchAdd
    \/ WatchTimeout
    \/ WatchTick
    \/ WatchReadFileDone
    \/ WatchWriteFileDone

SpecWatchAdd == InitWatch /\ [][NextWatchAdd]_vars

(***************************************************************************)
(* new Parser(tokens).parseDocument() on token lists of every shape: the   *)
(* tokens of a text that opens zero or more blocks, followed by a few      *)
(* tokens of any type in any order, followed by EOF.                       *)
(***************************************************************************)
MaxFreeTokens == 3

\* texts of one token each: every TokenType the parser tests for, and ARROW
\* for the types it tests nowhere (ARROW, DOT, HASH)
TokenTexts ==
    { <<"a", " ">>, KwAnchors \o <<" ">>, KwDirection \o <<" ">>, <<"g", "r", "o", "u", "p", " ">>,
      <<"1", " ">>, <<QUOTE, "x", QUOTE>>, <<"{">>, <<"}">>, <<"[">>, <<"]">>,
      <<":">>, <<",">>, <<NL>>, StrArrow }

\* texts that leave the parser at top level, in a node body, in a group
\* body, in an anchors object and in a coordinate
BlockOpenings ==
    { <<>>,
      <<"a", "{">>,
      <<"a", "{", "g", "r", "o", "u", "p", "{">>,
      <<"a", "{">> \o KwAnchors \o <<":", "{">>,
      <<"a", "{">> \o KwAnchors \o <<":", "{", "t", ":", "[">> }

ParserTexts ==
    { open \o Concat(ts) : open \in BlockOpenings, ts \in UpTo(TokenTexts, MaxFreeTokens) }

MaxAnchorEntries == 3

\* entries of an anchors block: the identifier, the text of the entry, and
\* the coordinate pair the text denotes (none when it is no pair)
AnchorEntries ==
    { [name |-> StrT, text |-> <<"t", ":", "[", "0", ",", "1", "]">>,
       coord |-> Some(<<0, Milli>>)],
      [name |-> StrT, text |-> <<"t", ":", "[", "1", ",", "0", "]">>,
       coord |-> Some(<<Milli, 0>>)],
      [name |-> <<"u">>, text |-> <<"u", ":", "[", "0", ".", "5", ",", "0", ".", "5", "]">>,
       coord |-> Some(<<500, 500>>)],
      [name |-> StrT, text |-> <<"t", ":", "5">>, coord |-> None] }

RECURSIVE JoinEntries(_)
JoinEntries(es) ==
    IF Len(es) = 0 THEN <<>>
    ELSE IF Len(es) = 1 THEN es[1].text
    ELSE es[1].text \o <<",">> \o JoinEntries(Tail(es))

\* the declaration of node a with an anchors block of the entries
AnchorBlockText(es) ==
    <<"a", "{">> \o KwAnchors \o <<":", "{">> \o JoinEntries(es) \o <<"}", "}">>

AnchorBlockTexts == { AnchorBlockText(es) : es \in UpTo(AnchorEntries, MaxAnchorEntries) }

InitParse ==
    /\ pc = "parse"
    /\ input \in ParserTexts \cup AnchorBlockTexts
    /\ options = Options(FALSE, None)
    /\ tokenize(input).err = None
    /\ tokens = tokenize(input).tokens
    /\ position = Len(input)
    /\ line = tokens[Len(tokens)].line /\ column = tokens[Len(tokens)].column
    /\ current = ParserStart.p.current
    /\ errors = ParserStart.p.errors
    /\ stack = ParserStart.stack
    /\ parseResult = None
    /\ document = EmptyDocument
    /\ nodeMap = <<>> /\ valErrors = <<>>
    /\ layout = EmptyLayout
    /\ result = None
    /\ previous = NoEarlierCall
    /\ watch = NotWatching

NextParse ==
    \/ ParseNodes
    \/ ParseNodeContent
    \/ ParseGroupContent
    \/ ParseAnchors
    \/ ParseDocumentReturn

SpecParse == InitParse /\ [][NextParse]_vars

(***************************************************************************)
(* Properties of validate                                                  *)
(***************************************************************************)
\* the ContainerNodes of one scope, in document order: the nodes of the
\* list with the children of groups (recursively) in their place
RECURSIVE ScopeContainers(_)
ScopeContainers(nodes) ==
    IF Len(nodes) = 0 THEN <<>>
    ELSE (IF Has(nodes[1], "id") THEN <<nodes[1]>> ELSE ScopeContainers(nodes[1].children))
         \o ScopeContainers(Tail(nodes))

\* how many ContainerNodes of the scope repeat an ID that occurred earlier in it
RepeatsInScope(cs) ==
    Cardinality({ i \in 1..Len(cs) : \E j \in 1..(i - 1) : cs[j].id = cs[i].id })

\* the repeats of the scope made of `nodes` and of every scope below it
RECURSIVE RepeatsBelow(_)
RECURSIVE RepeatsOfEach(_)
RepeatsOfEach(cs) ==
    IF Len(cs) = 0 THEN 0 ELSE RepeatsBelow(cs[1].children) + RepeatsOfEach(Tail(cs))

RepeatsBelow(nodes) ==
    RepeatsInScope(ScopeContainers(nodes)) + RepeatsOfEach(ScopeContainers(nodes))

IsDuplicateIdError(e) == e.type = "reference" /\ e.message.text = "Duplicate node ID"

UniquenessChecked ==
    pc \in {"validateArrowReferences", "validateAnchorReferences",
            "validateConstraints", "validated"}

\* C2: validate emits exactly one duplicate-ID reference error for each
\* ContainerNode whose ID already occurred earlier in its scope (the root or
\* one ContainerNode, groups flattened into it), and none otherwise.
C2_OneErrorPerDuplicate ==
    UniquenessChecked =>
        Len(SelectSeq(valErrors, IsDuplicateIdError)) = RepeatsBelow(document.nodes)

\* the ID chains from a top-level node down to a ContainerNode; a group
\* adds nothing to the chain
RECURSIVE IdChains(_, _)
IdChains(nodes, chain) ==
    UNION { IF Has(nodes[i], "id")
            THEN {Append(chain, nodes[i].id)}
                 \cup IdChains(nodes[i].children, Append(chain, nodes[i].id))
            ELSE IdChains(nodes[i].children, chain) :
            i \in 1..Len(nodes) }

RECURSIVE DotJoin(_)
DotJoin(chain) ==
    IF Len(chain) = 1 THEN chain[1] ELSE chain[1] \o <<".">> \o DotJoin(Tail(chain))

AddressablePaths(doc) == { DotJoin(chain) : chain \in IdChains(doc.nodes, <<>>) }

\* the length of the part of an endpoint before its first '#'
PathLength(endpoint) ==
    CHOOSE n \in 0..Len(endpoint) :
        /\ \A i \in 1..n : endpoint[i] # "#"
        /\ n = Len(endpoint) \/ endpoint[n + 1] = "#"

PathOf(endpoint) == SubSeq(endpoint, 1, PathLength(endpoint))

HasAnchorName(endpoint) == PathLength(endpoint) < Len(endpoint)

AnchorNameOf(endpoint) == SubSeq(endpoint, PathLength(endpoint) + 2, Len(endpoint))

Resolves(doc, endpoint) == PathOf(endpoint) \in AddressablePaths(doc)

\* what is expected of one arrow: an entry per endpoint whose path does not resolve
ExpectedEndpointErrors(doc, arrow) ==
    (IF Resolves(doc, arrow.source) THEN <<>>
     ELSE <<[text |-> "Arrow source node does not exist", arg |-> PathOf(arrow.source)]>>)
    \o (IF Resolves(doc, arrow.target) THEN <<>>
        ELSE <<[text |-> "Arrow target node does not exist", arg |-> PathOf(arrow.target)]>>)

RECURSIVE ExpectedArrowErrors(_, _)
ExpectedArrowErrors(doc, arrows) ==
    IF Len(arrows) = 0 THEN <<>>
    ELSE ExpectedEndpointErrors(doc, arrows[1]) \o ExpectedArrowErrors(doc, Tail(arrows))

IsNodeReferenceError(e) ==
    e.message.text \in {"Arrow source node does not exist", "Arrow target node does not exist"}

\* the text and path of the reported errors, all of type `reference`
TextAndArg(errs) ==
    [i \in 1..Len(errs) |-> [text |-> errs[i].message.text, arg |-> errs[i].message.arg]]

ArrowReferencesChecked ==
    pc \in {"validateAnchorReferences", "validateConstraints", "validated"}

C3_WitnessBoth ==
    /\ pc = "validated"
    /\ Len(document.arrows) = 1
    /\ Len(SelectSeq(valErrors, IsNodeReferenceError)) = 2

\* the ContainerNodes addressed by a path
RECURSIVE NodesAt(_, _, _)
NodesAt(nodes, chain, path) ==
    UNION { IF Has(nodes[i], "id")
            THEN (IF DotJoin(Append(chain, nodes[i].id)) = path THEN {nodes[i]} ELSE {})
                 \cup NodesAt(nodes[i].children, Append(chain, nodes[i].id), path)
            ELSE NodesAt(nodes[i].children, chain, path) :
            i \in 1..Len(nodes) }

\* anchorName is a key of the node's anchors map
IsAnchorKey(node, anchorName) ==
    Has(node, "anchors") /\ \E i \in 1..Len(node.anchors) : node.anchors[i].name = anchorName

\* what is expected of one endpoint: an anchor error iff it names an anchor,
\* its path resolves, and the name is neither `center` nor a key of the anchors
ExpectedAnchorError(doc, endpoint, text) ==
    IF /\ HasAnchorName(endpoint)
       /\ Resolves(doc, endpoint)
       /\ AnchorNameOf(endpoint) # StrCenter
       /\ \A node \in NodesAt(doc.nodes, <<>>, PathOf(endpoint)) :
              ~IsAnchorKey(node, AnchorNameOf(endpoint))
    THEN <<[text |-> text, arg |-> AnchorNameOf(endpoint)]>>
    ELSE <<>>

RECURSIVE ExpectedAnchorErrors(_, _)
ExpectedAnchorErrors(doc, arrows) ==
    IF Len(arrows) = 0 THEN <<>>
    ELSE ExpectedAnchorError(doc, arrows[1].source, "Arrow source anchor does not exist")
         \o ExpectedAnchorError(doc, arrows[1].target, "Arrow target anchor does not exist")
         \o ExpectedAnchorErrors(doc, Tail(arrows))

IsAnchorReferenceError(e) ==
    e.message.text \in {"Arrow source anchor does not exist",
                        "Arrow target anchor does not exist"}

AnchorReferencesChecked == pc \in {"validateConstraints", "validated"}

\* C9: for every endpoint with an explicit #anchorName, validate reports
\* exactly one anchor reference error when the node path resolves and the
\* name is neither `center` nor a key of that node's anchors map, and no
\* anchor error when the node path does not resolve.
C9_AnchorErrorIffMissing ==
    AnchorReferencesChecked =>
        LET reported == SelectSeq(valErrors, IsAnchorReferenceError)
        IN  /\ \A i \in 1..Len(reported) : reported[i].type = "reference"
            /\ TextAndArg(reported) = ExpectedAnchorErrors(document, document.arrows)

(***************************************************************************)
(* Properties of calculateLayout                                           *)
(***************************************************************************)
\* the layout nodes of ContainerNodes in the positioned trees: each holds
\* the box the engine computed for that very node
RECURSIVE ContainerLayouts(_)
ContainerLayouts(layouts) ==
    UNION { (IF Has(layouts[i].node, "id") THEN {layouts[i]} ELSE {})
            \cup ContainerLayouts(layouts[i].children) :
            i \in 1..Len(layouts) }

HasCenterOf(anchorPositions, id, box) ==
    \E i \in 1..Len(anchorPositions) :
        /\ anchorPositions[i].nodeId = id
        /\ anchorPositions[i].anchorId = StrCenter
        /\ 2 * anchorPositions[i].x = 2 * box.x + box.width
        /\ 2 * anchorPositions[i].y = 2 * box.y + box.height

RECURSIVE IndexPaths(_)
IndexPaths(nodes) ==
    UNION { {<<i>>} \cup { <<i>> \o q : q \in IndexPaths(nodes[i].children) } :
            i \in 1..Len(nodes) }

RECURSIVE NodeAtIndex(_, _)
NodeAtIndex(nodes, ipath) ==
    IF Len(ipath) = 1 THEN nodes[ipath[1]]
    ELSE NodeAtIndex(nodes[ipath[1]].children, Tail(ipath))

WithoutSize(node) == [f \in DOMAIN node \ {"size"} |-> node[f]]

\* the forest with the size override of the node at ipath removed
RECURSIVE WithoutSizeAt(_, _)
WithoutSizeAt(nodes, ipath) ==
    [i \in 1..Len(nodes) |->
        IF i # ipath[1] THEN nodes[i]
        ELSE IF Len(ipath) = 1 THEN WithoutSize(nodes[i])
        ELSE [nodes[i] EXCEPT !.children = WithoutSizeAt(@, Tail(ipath))]]

\* the box calculateLayout reports for an ID
Reported(lay, id) == MapGet(lay.nodeDimensions, id)

\* C5: for a ContainerNode with a size override s, the reported dimension
\* orthogonal to its direction is s times the one reported for the same
\* document without the override (width under vertical, height under
\* horizontal), and the other dimension is the same.
C5_SizeScalesOrthogonalDimension ==
    pc = "laidOut" =>
        \A ipath \in IndexPaths(document.nodes) :
            LET node == NodeAtIndex(document.nodes, ipath)
                plain == calculateLayout([document EXCEPT !.nodes = WithoutSizeAt(@, ipath)],
                                         FontSizeOf(options), SomeRandoms)
            IN  (Has(node, "id") /\ Has(node, "size")) =>
                    LET with == Reported(layout, node.id)
                        without == Reported(plain, node.id)
                    IN  IF DirectionOf(node) = "vertical"
                        THEN /\ with.width = Scale(without.width, node.size)
                             /\ with.height = without.height
                        ELSE /\ with.height = Scale(without.height, node.size)
                             /\ with.width = without.width

IsLeafContainer(node) == Has(node, "id") /\ Len(node.children) = 0

\* the box of a leaf laid out on its own: its natural width and height
Natural(leaf, fontSize) ==
    Reported(calculateLayout([nodes |-> <<leaf>>, arrows |-> <<>>], fontSize, SomeRandoms),
             leaf.id)

\* C6: a horizontal ContainerNode without size override whose children are
\* two leaves of natural sizes w1 x h1 and w2 x h2 is reported w1+w2 wide and
\* max(h1,h2) high, and both children are reported max(h1,h2) high; a
\* vertical one is reported h1+h2 high and max(w1,w2) wide, and both
\* children are reported max(w1,w2) wide.
C6_TwoLeafAggregation ==
    (pc = "laidOut" /\ validate(document) = <<>>) =>
        \A ipath \in IndexPaths(document.nodes) :
            LET node == NodeAtIndex(document.nodes, ipath)
            IN  (/\ Has(node, "id") /\ ~Has(node, "size")
                 /\ Len(node.children) = 2
                 /\ IsLeafContainer(node.children[1])
                 /\ IsLeafContainer(node.children[2])) =>
                    LET n1 == Natural(node.children[1], FontSizeOf(options))
                        n2 == Natural(node.children[2], FontSizeOf(options))
                        parent == Reported(layout, node.id)
                        c1 == Reported(layout, node.children[1].id)
                        c2 == Reported(layout, node.children[2].id)
                    IN  IF DirectionOf(node) = "horizontal"
                        THEN /\ parent.width = n1.width + n2.width
                             /\ parent.height = MaxOf(n1.height, n2.height)
                             /\ c1.height = MaxOf(n1.height, n2.height)
                             /\ c2.height = MaxOf(n1.height, n2.height)
                        ELSE /\ parent.height = n1.height + n2.height
                             /\ parent.width = MaxOf(n1.width, n2.width)
                             /\ c1.width = MaxOf(n1.width, n2.width)
                             /\ c2.width = MaxOf(n1.width, n2.width)

(***************************************************************************)
(* Properties of parseArkitecture and arkitectureToSVG                     *)
(***************************************************************************)
\* the texts of zero or more well-formed node declarations followed by
\* arrow statements, with the arrows they declare
ArrowPrograms ==
    { prog \in { [nodes |-> ns, arrows |-> as] :
                    ns \in UpTo(NodeStatements, MaxStatements),
                    as \in UpTo(ArrowStatements, MaxStatements) } :
        Len(prog.nodes) + Len(prog.arrows) <= MaxStatements }

ProgramText(prog) ==
    JoinLines(prog.nodes \o [i \in 1..Len(prog.arrows) |-> ArrowText(prog.arrows[i])])

\* C1: for a text of well-formed top-level node declarations followed by k
\* well-formed arrow statements, parsing returns success=true and a document
\* whose arrows are the k declared arrows, in declaration order, each with
\* its source and target.
C1_ArrowsParsedInOrder ==
    pc = "parsed" =>
        \A prog \in ArrowPrograms :
            input = ProgramText(prog) =>
                /\ parseResult[1].success
                /\ Has(parseResult[1], "document")
                /\ parseResult[1].document.arrows = prog.arrows

\* parseDocument ran (the tokenizer returned its tokens) and has returned
ParserReturned == pc = "parsed" /\ Len(tokens) > 0

\* C7: parseDocument always returns: while it runs the cursor stays on a
\* token and the active calls are the loops of parseNodes and, above it, of
\* nodes, groups and anchors, each of which can step; its result carries the errors
\* it recorded, success=false when there is one, and in every case a
\* document holding the nodes parseNodes collected.
C7_ParserReturnsPartialDocument ==
    /\ pc = "parse" =>
           /\ current < Len(tokens)
           /\ Len(stack) > 0
           /\ stack[1].fn = "parseNodes"
           /\ \A i \in 2..Len(stack) :
                  stack[i].fn \in {"parseNode", "parseGroup", "parseAnchors"}
    /\ ParserReturned =>
           /\ parseResult[1].errors = errors
           /\ Len(errors) > 0 => ~parseResult[1].success
           /\ Has(parseResult[1], "document")
           /\ parseResult[1].document.nodes = stack[1].val

\* parseDocument has returned errors together with a node it parsed
C7_Witness ==
    /\ ParserReturned
    /\ Len(errors) > 0
    /\ ~parseResult[1].success
    /\ Len(parseResult[1].document.nodes) > 0

\* the line of the character at 0-based position pos: one more than the
\* newlines before it
LineAt(inp, pos) == 1 + Cardinality({ j \in 1..pos : inp[j] = NL })

\* its column: its distance from the last newline before it
ColumnAt(inp, pos) ==
    LET newlines == { j \in 1..pos : inp[j] = NL }
    IN  IF newlines = {} THEN pos + 1
        ELSE pos + 1 - (CHOOSE j \in newlines : \A k \in newlines : k <= j)

\* a character that starts no token: '@', or a '-' that does not start '-->'
StartsNoToken(inp, k) ==
    \/ inp[k] = "@"
    \/ inp[k] = "-" /\ ~(k + 2 <= Len(inp) /\ inp[k + 1] = "-" /\ inp[k + 2] = ">")
                    /\ ~(k > 1 /\ inp[k - 1] = "-" /\ k + 1 <= Len(inp) /\ inp[k + 1] = ">")
                    /\ ~(k > 2 /\ inp[k - 1] = "-" /\ inp[k - 2] = "-")

\* the 1-based index of the first character that starts no token and has no
\* quote or '#' before it (so it is in no string and no comment); 0 if none
PlainStray(inp) ==
    LET stray == { k \in 1..Len(inp) :
                     /\ StartsNoToken(inp, k)
                     /\ \A j \in 1..(k - 1) : inp[j] \notin {QUOTE, "#"} /\ ~StartsNoToken(inp, j) }
    IN  IF stray = {} THEN 0 ELSE CHOOSE k \in stray : TRUE

UnexpectedCharacterThrown ==
    /\ parseResult # None
    /\ Len(parseResult[1].errors) > 0
    /\ parseResult[1].errors[1].message.text = "Unexpected character"

\* C8: a character that starts no token outside strings and comments aborts
\* tokenization with one fatal error carrying that character's line and
\* column and no tokens; parseArkitecture then returns success=false, exactly
\* one syntax error and no document.
C8_StrayCharacterIsFatal ==
    /\ (pc # "tokenize" /\ PlainStray(input) > 0) =>
           /\ UnexpectedCharacterThrown
           /\ position = PlainStray(input) - 1
    /\ UnexpectedCharacterThrown =>
           /\ tokens = <<>>
           /\ ~parseResult[1].success
           /\ ~Has(parseResult[1], "document")
           /\ Len(parseResult[1].errors) = 1
           /\ parseResult[1].errors[1].type = "syntax"
           /\ parseResult[1].errors[1].message.arg = <<input[position + 1]>>
           /\ parseResult[1].errors[1].line = LineAt(input, position)
           /\ parseResult[1].errors[1].column = ColumnAt(input, position)

LayoutRuns ==
    pc \in {"layout", "positionNodes", "calculateCanvasSize",
            "calculateAnchorPositions", "laidOut"}

\* C10: arkitectureToSVG always returns; it returns an svg only when the
\* parse reported no error and validation reported no error; layout and
\* rendering run only on such a document; with any parse or validation error
\* the result has success=false and no svg.
C10_SvgOnlyWithoutErrors ==
    /\ pc \in {"tokenize", "parse", "parsed", "validate", "validateNodeIdUniqueness",
               "validateArrowReferences", "validateAnchorReferences",
               "validateConstraints", "validated", "layout", "positionNodes",
               "calculateCanvasSize", "calculateAnchorPositions", "laidOut", "done"}
    /\ pc \in {"parsed", "validate", "validated", "laidOut", "done"} => parseResult # None
    /\ pc = "done" <=> result # None
    /\ LayoutRuns =>
           /\ parseResult[1].success /\ Len(parseResult[1].errors) = 0
           /\ Len(valErrors) = 0
           /\ validate(parseResult[1].document) = <<>>
    /\ (result # None /\ Has(result[1], "svg")) =>
           /\ result[1].success
           /\ Len(parseResult[1].errors) = 0
           /\ validate(parseResult[1].document) = <<>>
    /\ (result # None /\ (Len(parseResult[1].errors) > 0 \/ Len(valErrors) > 0)) =>
           /\ ~result[1].success
           /\ ~Has(result[1], "svg")
           /\ Len(result[1].errors) > 0

\* an svg with a node in it has been returned
C10_Witness ==
    /\ pc = "done"
    /\ Has(result[1], "svg")
    /\ Len(result[1].svg.nodes) > 0

\* a document that parsed without error was rejected by validation
C10_WitnessRejected ==
    /\ pc = "done"
    /\ parseResult[1].success
    /\ Len(valErrors) > 0
    /\ ~result[1].success /\ ~Has(result[1], "svg")

(***************************************************************************)
(* Properties of generateSVG                                               *)
(***************************************************************************)
\* the endpoint's anchor is in the layout's anchor list: an entry whose
\* nodeId is the text before '#' and whose anchorId is the text after it
\* ('center' without a '#')
AnchorListed(lay, endpoint) ==
    \E i \in 1..Len(lay.anchorPositions) :
        /\ lay.anchorPositions[i].nodeId = PathOf(endpoint)
        /\ lay.anchorPositions[i].anchorId
               = (IF HasAnchorName(endpoint) THEN AnchorNameOf(endpoint) ELSE StrCenter)

Drawn(lay, arrow) == AnchorListed(lay, arrow.source) /\ AnchorListed(lay, arrow.target)

\* the arrows of the list that are drawn, in order
RECURSIVE DrawnArrows(_, _)
DrawnArrows(lay, arrows) ==
    IF Len(arrows) = 0 THEN <<>>
    ELSE (IF Drawn(lay, arrows[1]) THEN <<arrows[1]>> ELSE <<>>)
         \o DrawnArrows(lay, Tail(arrows))

Rendered == pc = "generated" /\ result # None

\* C11: rendering always returns; it draws one line per arrow whose source
\* and target anchors are both in the layout's anchor list and none for any
\* other arrow, and the nodes and lines are those of the same document
\* without the omitted arrows.
C11_ArrowDrawnIffAnchorsFound ==
    /\ pc = "generated" => result # None
    /\ Rendered =>
         LET svg == result[1].svg
             kept == DrawnArrows(layout, document.arrows)
             without == generateSVG([document EXCEPT !.arrows = kept], layout,
                                    SvgFontSize(options))
         IN  /\ Len(svg.arrows) = Len(kept)
             /\ svg = without
             /\ svg.nodes = generateSVG([document EXCEPT !.arrows = <<>>], layout,
                                        SvgFontSize(options)).nodes
             /\ \A i \in 1..Len(kept) :
                    /\ Len(generateArrows(<<kept[i]>>, 1, layout)) = 1
                    /\ svg.arrows[i] = generateArrows(<<kept[i]>>, 1, layout)[1]

\* an arrow was omitted and another one drawn
C11_Witness ==
    /\ Rendered
    /\ Len(document.arrows) = 2
    /\ Len(result[1].svg.arrows) = 1
    /\ ~Drawn(layout, document.arrows[1])
    /\ Drawn(layout, document.arrows[2])

\* the layout nodes of ContainerNodes in document order
RECURSIVE ContainerLayoutSeq(_)
ContainerLayoutSeq(layouts) ==
    IF Len(layouts) = 0 THEN <<>>
    ELSE (IF Has(layouts[1].node, "id") THEN <<layouts[1]>> ELSE <<>>)
         \o ContainerLayoutSeq(layouts[1].children)
         \o ContainerLayoutSeq(Tail(layouts))

InUnitRange(rel) == rel >= 0 /\ rel <= Milli

\* the anchors-map entries of a node with both coordinates in [0.0, 1.0]
RECURSIVE InRangeAnchors(_)
InRangeAnchors(anchors) ==
    IF Len(anchors) = 0 THEN <<>>
    ELSE (IF InUnitRange(anchors[1].coord[1]) /\ InUnitRange(anchors[1].coord[2])
          THEN <<anchors[1]>> ELSE <<>>)
         \o InRangeAnchors(Tail(anchors))

\* the anchor entries the box of one ContainerNode calls for
ExpectedAnchorsOf(lay) ==
    LET box == lay.dimensions
        kept == IF Has(lay.node, "anchors") THEN InRangeAnchors(lay.node.anchors) ELSE <<>>
    IN  <<[x |-> box.x + box.width \div 2, y |-> box.y + box.height \div 2,
           nodeId |-> lay.node.id, anchorId |-> StrCenter]>>
        \o [i \in 1..Len(kept) |->
               [x |-> box.x + (box.width * kept[i].coord[1]) \div Milli,
                y |-> box.y + (box.height * kept[i].coord[2]) \div Milli,
                nodeId |-> lay.node.id, anchorId |-> kept[i].name]]

RECURSIVE ExpectedAnchorList(_)
ExpectedAnchorList(lays) ==
    IF Len(lays) = 0 THEN <<>>
    ELSE ExpectedAnchorsOf(lays[1]) \o ExpectedAnchorList(Tail(lays))

CountOf(seq, e) == Cardinality({ i \in 1..Len(seq) : seq[i] = e })

SameEntries(s1, s2) ==
    /\ Len(s1) = Len(s2)
    /\ \A i \in 1..Len(s1) : CountOf(s1, s1[i]) = CountOf(s2, s1[i])

\* the pixel positions of the expected anchors are whole in the model's unit
ExactAnchors(lay) ==
    /\ lay.dimensions.width % 2 = 0 /\ lay.dimensions.height % 2 = 0
    /\ Has(lay.node, "anchors") =>
         \A i \in 1..Len(lay.node.anchors) :
             /\ (lay.dimensions.width * lay.node.anchors[i].coord[1]) % Milli = 0
             /\ (lay.dimensions.height * lay.node.anchors[i].coord[2]) % Milli = 0

UniqueIds(lays) ==
    \A i, j \in 1..Len(lays) : lays[i].node.id = lays[j].node.id => i = j

C12_AnchorListFromBoxesUniqueIds ==
    (pc = "laidOut" /\ UniqueIds(ContainerLayoutSeq(layout.rootLayouts))) =>
        SameEntries(layout.anchorPositions,
                    ExpectedAnchorList(ContainerLayoutSeq(layout.rootLayouts)))

\* the box the layout result reports for the i-th top-level node
TopBox(i) == MapGet(layout.nodeDimensions, document.nodes[i].id)

RECURSIVE SumOfTopWidths(_)
SumOfTopWidths(n) == IF n = 0 THEN 0 ELSE SumOfTopWidths(n - 1) + TopBox(n).width

\* C13: in the layout result of a document that validates with zero errors,
\* the i-th top-level node has y = 0 and x equal to the sum of the reported
\* widths of the top-level nodes declared before it.
C13_TopLevelNodesTile ==
    (pc = "laidOut" /\ validate(document) = <<>>) =>
        \A i \in 1..Len(document.nodes) :
            /\ MapHas(layout.nodeDimensions, document.nodes[i].id)
            /\ TopBox(i).y = 0
            /\ TopBox(i).x = SumOfTopWidths(i - 1)

\* the same for documents in which no two ContainerNodes share an ID
C13_TopLevelNodesTileUniqueIds ==
    (pc = "laidOut" /\ UniqueIds(ContainerLayoutSeq(layout.rootLayouts))) =>
        \A i \in 1..Len(document.nodes) :
            /\ TopBox(i).y = 0
            /\ TopBox(i).x = SumOfTopWidths(i - 1)

MaxOfSet(S) == IF S = {} THEN 0 ELSE CHOOSE m \in S : \A k \in S : k <= m

\* C14: canvasWidth is the largest right edge (x + width) and canvasHeight the
\* largest bottom edge (y + height) of the final boxes of the top-level
\* nodes; a document without nodes gives 0, 0 and an empty anchor list.
C14_CanvasCoversTopLevelNodes ==
    pc = "laidOut" =>
        LET roots == layout.rootLayouts
        IN  /\ Len(roots) = Len(document.nodes)
            /\ layout.canvasWidth
                   = MaxOfSet({ roots[i].dimensions.x + roots[i].dimensions.width :
                                  i \in 1..Len(roots) })
            /\ layout.canvasHeight
                   = MaxOfSet({ roots[i].dimensions.y + roots[i].dimensions.height :
                                  i \in 1..Len(roots) })
            /\ Len(document.nodes) = 0 =>
                   /\ layout.canvasWidth = 0 /\ layout.canvasHeight = 0
                   /\ layout.anchorPositions = <<>>

\* two top-level nodes, the first one the taller
C14_Witness ==
    /\ pc = "laidOut"
    /\ Len(layout.rootLayouts) = 2
    /\ layout.rootLayouts[1].dimensions.height > layout.rootLayouts[2].dimensions.height
    /\ layout.canvasHeight = layout.rootLayouts[1].dimensions.height
    /\ layout.canvasWidth > layout.rootLayouts[1].dimensions.width

\* the document without nodes
C14_WitnessEmpty == pc = "laidOut" /\ document.nodes = <<>> /\ layout.canvasWidth = 0

(***************************************************************************)
(* Properties of repeated calls                                            *)
(***************************************************************************)
\* C15: a second parseArkitecture on the same text returns what the first
\* returned, and a second calculateLayout on the same document (same text
\* measurer) returns what the first returned: the same boxes, the same
\* anchor list in the same order and the same canvas size, whatever the
\* synthetic group IDs drawn in either run.
C15_RepeatedCallsAgree ==
    /\ (pc = "parsed" /\ previous.parse # None) => parseResult = previous.parse
    /\ (pc = "laidOut" /\ previous.layout # None) =>
           LayoutResult(layout) = previous.layout[1]

HoldsGroup(lays) ==
    \E i \in 1..Len(lays) : ~isContainer(lays[i].node) \/ \E j \in 1..Len(lays[i].children) :
        ~isContainer(lays[i].children[j].node)

\* both calls were repeated, the layout on a document with a group
C15_Witness ==
    /\ pc = "laidOut"
    /\ previous.parse # None
    /\ previous.layout # None
    /\ HoldsGroup(layout.rootLayouts)
    /\ Len(layout.anchorPositions) > 1

\* a failed parse was repeated
C15_WitnessFailure ==
    /\ pc = "parsed"
    /\ previous.parse # None
    /\ ~parseResult[1].success
    /\ Len(parseResult[1].errors) > 0

(***************************************************************************)
(* Properties of validate: paths through groups                            *)
(***************************************************************************)
StrGroup == <<"g", "r", "o", "u", "p">>

\* one ContainerNode holding one group that holds two ContainerNodes of
\* different IDs, and one arrow from the first to the second, each named by
\* container.group.item
GroupedPair(doc) ==
    /\ Len(doc.nodes) = 1 /\ Has(doc.nodes[1], "id")
    /\ Len(doc.nodes[1].children) = 1
    /\ LET container == doc.nodes[1]
           group == container.children[1]
       IN  /\ ~Has(group, "id")
           /\ Len(group.children) = 2
           /\ Has(group.children[1], "id") /\ Has(group.children[2], "id")
           /\ group.children[1].id # group.children[2].id
           /\ group.children[1].children = <<>> /\ group.children[2].children = <<>>
           /\ Len(doc.arrows) = 1
           /\ doc.arrows[1].source
                  = container.id \o <<".">> \o StrGroup \o <<".">> \o group.children[1].id
           /\ doc.arrows[1].target
                  = container.id \o <<".">> \o StrGroup \o <<".">> \o group.children[2].id

\* C16: a container holding a group that holds item1 and item2, with an arrow
\* from container.group.item1 to container.group.item2, validates with zero
\* errors.
C16_GroupPathArrowValidates ==
    (pc = "validated" /\ GroupedPair(document)) => valErrors = <<>>

(***************************************************************************)
(* Properties of parseArkitecture: negative numbers                        *)
(***************************************************************************)
\* the 1-based indexes of the minus signs of a property  size:-<digit>
NegativeSizes(inp) ==
    { k \in 6..(Len(inp) - 1) :
        /\ inp[k] = "-"
        /\ StartsNoToken(inp, k)
        /\ SubSeq(inp, k - 5, k - 1) = <<"s", "i", "z", "e", ":">>
        /\ isDigit(inp[k + 1]) }

HasConstraintError(errs) == \E i \in 1..Len(errs) : errs[i].type = "constraint"

\* C17: a size written with a minus sign never yields a constraint error:
\* the parse fails with success=false, and when the tokenizer stops at the
\* minus sign the one error is a syntax error "Unexpected character '-'"
\* carrying the line and column of the minus sign.
C17_NegativeSizeIsSyntaxError ==
    (parseResult # None /\ NegativeSizes(input) # {}) =>
        /\ ~parseResult[1].success
        /\ ~HasConstraintError(parseResult[1].errors)
        /\ PlainStray(input) \in NegativeSizes(input) =>
               UnexpectedCharacterThrown /\ position = PlainStray(input) - 1
        /\ (UnexpectedCharacterThrown /\ (position + 1) \in NegativeSizes(input)) =>
               /\ Len(parseResult[1].errors) = 1
               /\ parseResult[1].errors[1].type = "syntax"
               /\ parseResult[1].errors[1].message.arg = <<"-">>
               /\ parseResult[1].errors[1].line = LineAt(input, position)
               /\ parseResult[1].errors[1].column = ColumnAt(input, position)

\* the same, leaving the reported line and column aside
C17_NegativeSizeIsSyntaxErrorSomewhere ==
    (parseResult # None /\ NegativeSizes(input) # {}) =>
        /\ ~parseResult[1].success
        /\ ~HasConstraintError(parseResult[1].errors)
        /\ (UnexpectedCharacterThrown /\ (position + 1) \in NegativeSizes(input)) =>
               /\ Len(parseResult[1].errors) = 1
               /\ parseResult[1].errors[1].type = "syntax"
               /\ parseResult[1].errors[1].message.arg = <<"-">>

(***************************************************************************)
(* Properties of watch mode                                                *)
(***************************************************************************)
\* changes i..j form a burst: consecutive events less than 100 ms apart, the
\* events before and after it more than 100 ms away
Burst(ch, i, j) ==
    /\ \A k \in i..(j - 1) : ch[k + 1] - ch[k] < DebounceMs
    /\ i = 1 \/ ch[i] - ch[i - 1] > DebounceMs
    /\ j = Len(ch) \/ ch[j + 1] - ch[j] > DebounceMs

\* 100 ms after the last event of the burst have passed, timers run
BurstOver(w, j) ==
    \/ w.now > w.changes[j] + DebounceMs
    \/ w.now = w.changes[j] + DebounceMs /\ \A handle \in w.timers : handle.due > w.now

RegenerationsIn(w, from, to) ==
    { k \in 1..Len(w.regenerated) : from <= w.regenerated[k] /\ w.regenerated[k] <= to }

\* C18: a burst of change events less than 100 ms apart regenerates the
\* file exactly once, 100 ms after its last event; every regeneration is one
\* read, so three rapid changes after the initial run give two reads.
C18_BurstRegeneratesOnce ==
    pc = "watching" =>
        /\ watch.reads = 1 + Len(watch.regenerated)
        /\ \A i \in 1..Len(watch.changes) : \A j \in i..Len(watch.changes) :
               Burst(watch.changes, i, j) =>
                   LET last == watch.changes[j] + DebounceMs
                   IN  /\ RegenerationsIn(watch, watch.changes[i], last - 1) = {}
                       /\ BurstOver(watch, j) =>
                              Cardinality(RegenerationsIn(watch, last, last)) = 1
        /\ (Len(watch.changes) = 3 /\ Burst(watch.changes, 1, 3) /\ BurstOver(watch, 3)) =>
               watch.reads = 2

\* three changes 25 ms and 50 ms apart, regenerated once
C18_Witness ==
    /\ pc = "watching"
    /\ Len(watch.changes) = 3
    /\ watch.changes[2] - watch.changes[1] = TickMs
    /\ watch.changes[3] - watch.changes[2] = 2 * TickMs
    /\ watch.regenerated = <<watch.changes[3] + DebounceMs>>
    /\ watch.reads = 2

(***************************************************************************)
(* Properties of parseArkitecture: error recovery between siblings         *)
(***************************************************************************)
\* the errors parseArkitecture reports for a text parsed on its own
ErrorsAlone(text) == parseArkitecture(text).errors

HasSyntaxError(errs) == \E i \in 1..Len(errs) : errs[i].type = "syntax"

SameError(e1, e2) == e1.type = e2.type /\ e1.message = e2.message

CountOfError(errs, e) == Cardinality({ i \in 1..Len(errs) : SameError(errs[i], e) })

LinesOf(text) == 1 + Cardinality({ j \in 1..Len(text) : text[j] = NL })

\* the error list holds an error of the declaration `decl`, which spans the
\* lines first..last of the text: an error located on one of its lines, or
\* one with the type and message of an error that `decl` has on its own,
\* beside the errors of that kind that the declaration `other` accounts for
ReportsOneOf(errs, decl, other, first, last) ==
    \/ \E i \in 1..Len(errs) : first <= errs[i].line /\ errs[i].line <= last
    \/ \E k \in 1..Len(ErrorsAlone(decl)) :
          LET e == ErrorsAlone(decl)[k]
          IN  CountOfError(errs, e) > (IF CountOfError(ErrorsAlone(other), e) > 0 THEN 1 ELSE 0)

\* the two top-level declarations the text consists of, one per line
SiblingPairs(text) ==
    { pair \in Statements \X Statements : text = pair[1] \o <<NL>> \o pair[2] }

\* a declaration the tokenizer accepts
Tokenizes(text) ==
    \A i \in 1..Len(ErrorsAlone(text)) :
        ErrorsAlone(text)[i].message.text
            \notin {"Unexpected character", "Unterminated string", "Unterminated string escape"}

\* C19: when one of two sibling declarations (both accepted by the
\* tokenizer) is malformed, having a syntax error of its own, the returned
\* error list still holds an error of the other sibling if that one has
\* errors when parsed on its own.
C19_MalformedSiblingHidesNothing ==
    (pc = "parsed" /\ parseResult # None) =>
        \A pair \in SiblingPairs(input) :
            (Tokenizes(pair[1]) /\ Tokenizes(pair[2])) =>
                /\ (HasSyntaxError(ErrorsAlone(pair[1])) /\ Len(ErrorsAlone(pair[2])) > 0) =>
                       ReportsOneOf(parseResult[1].errors, pair[2], pair[1],
                                    LinesOf(pair[1]) + 1, LinesOf(input))
                /\ (HasSyntaxError(ErrorsAlone(pair[2])) /\ Len(ErrorsAlone(pair[1])) > 0) =>
                       ReportsOneOf(parseResult[1].errors, pair[1], pair[2], 1, LinesOf(pair[1]))

(***************************************************************************)
(* Properties of the parser: termination                                   *)
(***************************************************************************)
\* the iteration that the loop of the top frame is about to run
NextIteration == parserStep(tokens, ParserState, stack)

\* the iteration consumes at least one token
Consumes(r) == r.p.current > current

\* the iteration leaves its loop: the frame of the loop returns
LeavesLoop(r) == Len(r.stack) < Len(stack)

\* the cursor stands on a token, and no token before it is EOF
CursorWithinTokens ==
    /\ current < Len(tokens)
    /\ \A i \in 1..current : tokens[i].type # "EOF"

\* C20: while the parser runs on a token list that ends in EOF, the cursor
\* stands on a token at or before EOF, and the next iteration of the loop
\* in progress (top-level nodes, node body, group body, anchors object, with
\* the skip-until helpers it calls) either consumes at least one token or
\* leaves its loop; the cursor never moves back.  Hence the number of tokens
\* left and the depth of the loops bound the number of iterations.
C20_EveryIterationConsumesOrLeaves ==
    pc = "parse" =>
        /\ CursorWithinTokens
        /\ ~ParserDone(tokens, ParserState, stack) =>
              /\ Consumes(NextIteration) \/ LeavesLoop(NextIteration)
              /\ NextIteration.p.current >= current
              /\ NextIteration.p.current < Len(tokens)

\* the parser has returned after recovering inside an anchors object of a
\* token list that held more than the opening: errors are recorded and the
\* cursor stands on EOF
C20_Witness ==
    /\ pc = "parsed"
    /\ Len(errors) >= 2
    /\ Len(tokens) >= 8
    /\ tokens[current + 1].type = "EOF"
    /\ \E i \in 1..Len(tokens) : tokens[i].type = "LBRACKET"

(***************************************************************************)
(* Properties of validate and generateSVG together                         *)
(***************************************************************************)
\* C21: when a document that validates with zero errors is rendered, every
\* one of its arrows has its source and its target in the layout's anchor
\* list, and one line is drawn per arrow.
C21_ValidArrowsAreDrawn ==
    (Rendered /\ validate(document) = <<>>) =>
        /\ \A i \in 1..Len(document.arrows) : Drawn(layout, document.arrows[i])
        /\ Len(result[1].svg.arrows) = Len(document.arrows)

\* C21 for the arrows whose endpoints name top-level nodes only
C21_ValidTopLevelArrowsAreDrawn ==
    (Rendered /\ validate(document) = <<>>) =>
        \A i \in 1..Len(document.arrows) :
            LET arrow == document.arrows[i]
            IN  (\A j \in 1..Len(arrow.source) : arrow.source[j] # ".")
                /\ (\A j \in 1..Len(arrow.target) : arrow.target[j] # ".")
                => Drawn(layout, arrow)

(***************************************************************************)
(* Properties of validate: the order of the returned list                  *)
(***************************************************************************)
IsConstraintError(e) == e.type = "constraint"

\* s is t without some of its elements
RECURSIVE IsSubsequence(_, _)
IsSubsequence(s, t) ==
    IF Len(s) = 0 THEN TRUE
    ELSE IF Len(t) = 0 THEN FALSE
    ELSE IF s[1] = t[1] THEN IsSubsequence(Tail(s), Tail(t))
    ELSE IsSubsequence(s, Tail(t))

\* the repeated IDs of one scope in document order, with the name of the scope
RepeatsOfScope(cs, parentPath) ==
    LET repeats == SelectSeq([i \in 1..Len(cs) |-> [at |-> i, id |-> cs[i].id]],
                             LAMBDA r : \E j \in 1..(r.at - 1) : cs[j].id = r.id)
    IN  [i \in 1..Len(repeats) |->
            [arg |-> repeats[i].id,
             scope |-> IF parentPath # <<>> THEN parentPath ELSE StrRoot]]

\* the repeats a traversal meets: those of the scope of `nodes`, then those
\* below each node in document order.  With everyLevel the traversal looks
\* at the children of a group as a level of its own as well; without it
\* only the root and the ContainerNodes are scopes.
RECURSIVE RepeatsInTraversal(_, _, _)
RECURSIVE RepeatsBelowEach(_, _, _, _)
RepeatsBelowEach(nodes, i, parentPath, everyLevel) ==
    IF i > Len(nodes) THEN <<>>
    ELSE (IF Has(nodes[i], "id")
          THEN RepeatsInTraversal(nodes[i].children, JoinPath(parentPath, nodes[i].id),
                                  everyLevel)
          ELSE IF everyLevel
          THEN RepeatsInTraversal(nodes[i].children, parentPath, everyLevel)
          ELSE RepeatsBelowEach(nodes[i].children, 1, parentPath, everyLevel))
         \o RepeatsBelowEach(nodes, i + 1, parentPath, everyLevel)

RepeatsInTraversal(nodes, parentPath, everyLevel) ==
    RepeatsOfScope(ScopeContainers(nodes), parentPath)
        \o RepeatsBelowEach(nodes, 1, parentPath, everyLevel)

ArgAndScope(errs) ==
    [i \in 1..Len(errs) |-> [arg |-> errs[i].message.arg, scope |-> errs[i].message.scope]]

\* what is expected of the constraint check: tree traversal order, a
\* node's size before its anchors, the anchors in the order of the map, X
\* before Y
RECURSIVE ExpectedConstraintErrors(_)
ExpectedConstraintErrors(nodes) ==
    IF Len(nodes) = 0 THEN <<>>
    ELSE LET node == nodes[1]
             ofSize == IF Has(node, "id") /\ Has(node, "size")
                          /\ (node.size < 0 \/ node.size > Milli)
                       THEN <<[text |-> "size is out of range", arg |-> node.id,
                               anchor |-> <<>>]>>
                       ELSE <<>>
             ofAnchor(an) ==
                 (IF an.coord[1] < 0 \/ an.coord[1] > Milli
                  THEN <<[text |-> "anchor X coordinate is out of range", arg |-> node.id,
                          anchor |-> an.name]>>
                  ELSE <<>>)
                 \o (IF an.coord[2] < 0 \/ an.coord[2] > Milli
                     THEN <<[text |-> "anchor Y coordinate is out of range", arg |-> node.id,
                             anchor |-> an.name]>>
                     ELSE <<>>)
             ofAnchors == IF Has(node, "id") /\ Has(node, "anchors")
                          THEN Concat([i \in 1..Len(node.anchors) |-> ofAnchor(node.anchors[i])])
                          ELSE <<>>
         IN  ofSize \o ofAnchors \o ExpectedConstraintErrors(node.children)
             \o ExpectedConstraintErrors(Tail(nodes))

\* the anchor-reference errors that the endpoints naming an anchor could
\* give rise to, in declaration order, source before target
RECURSIVE AnchorErrorsInOrder(_)
AnchorErrorsInOrder(arrows) ==
    IF Len(arrows) = 0 THEN <<>>
    ELSE (IF HasAnchorName(arrows[1].source)
          THEN <<[text |-> "Arrow source anchor does not exist",
                  arg |-> AnchorNameOf(arrows[1].source)]>>
          ELSE <<>>)
         \o (IF HasAnchorName(arrows[1].target)
             THEN <<[text |-> "Arrow target anchor does not exist",
                     arg |-> AnchorNameOf(arrows[1].target)]>>
             ELSE <<>>)
         \o AnchorErrorsInOrder(Tail(arrows))

TextArgAndAnchor(errs) ==
    [i \in 1..Len(errs) |->
        [text |-> errs[i].message.text, arg |-> errs[i].message.arg,
         anchor |-> errs[i].message.anchor]]

\* C22: the list validate returns is its uniqueness errors, then its arrow
\* node-reference errors, then its anchor-reference errors, then its
\* constraint errors.  The uniqueness errors are in the order of a traversal
\* of the tree and hold the repeat of every scope; the node-reference errors
\* are those of all arrows in declaration order, source before target; the
\* anchor-reference errors follow the same order; the constraint errors are
\* those of all nodes in traversal order, size before anchors, anchors in
\* map order.  Each part is the same whatever the other parts hold.
C22_ErrorsInCheckOrder ==
    pc = "validated" =>
        LET uniqueness == SelectSeq(valErrors, IsDuplicateIdError)
            references == SelectSeq(valErrors, IsNodeReferenceError)
            anchors == SelectSeq(valErrors, IsAnchorReferenceError)
            constraints == SelectSeq(valErrors, IsConstraintError)
        IN  /\ valErrors = uniqueness \o references \o anchors \o constraints
            /\ valErrors = validate(document)
            /\ IsSubsequence(ArgAndScope(uniqueness),
                             RepeatsInTraversal(document.nodes, <<>>, TRUE))
            /\ IsSubsequence(RepeatsInTraversal(document.nodes, <<>>, FALSE),
                             ArgAndScope(uniqueness))
            /\ TextAndArg(references) = ExpectedArrowErrors(document, document.arrows)
            /\ IsSubsequence(TextAndArg(anchors), AnchorErrorsInOrder(document.arrows))
            /\ TextArgAndAnchor(constraints) = ExpectedConstraintErrors(document.nodes)

\* a list with errors of all four checks, two of them constraint errors of
\* one node, has been returned
C22_Witness ==
    /\ pc = "validated"
    /\ SelectSeq(valErrors, IsDuplicateIdError) # <<>>
    /\ Len(SelectSeq(valErrors, IsNodeReferenceError)) >= 2
    /\ SelectSeq(valErrors, IsAnchorReferenceError) # <<>>
    /\ Len(SelectSeq(valErrors, IsConstraintError)) >= 2

(***************************************************************************)
(* Properties of calculateLayout: the geometry of the boxes                *)
(***************************************************************************)
PositiveArea(box) == box.width > 0 /\ box.height > 0

\* every size and anchor coordinate of the document is within [0.0, 1.0]
ValuesInRange(doc) == validateConstraints(doc) = <<>>

\* C23: in the layout result of a document whose size and anchor values are
\* within [0.0, 1.0], the box of every ContainerNode, as computed for the
\* node and as reported in the node-dimensions map, has width > 0 and
\* height > 0.
C23_EveryBoxHasPositiveArea ==
    (pc = "laidOut" /\ ValuesInRange(document)) =>
        /\ \A lay \in ContainerLayouts(layout.rootLayouts) : PositiveArea(lay.dimensions)
        /\ \A i \in 1..Len(layout.nodeDimensions) :
               PositiveArea(layout.nodeDimensions[i].value)

\* the subtree holds a ContainerNode without children
RECURSIVE HoldsLeafContainer(_)
HoldsLeafContainer(node) ==
    \/ IsLeafContainer(node)
    \/ \E i \in 1..Len(node.children) : HoldsLeafContainer(node.children[i])

\* no ContainerNode with children has size 0.0, and every child of every
\* node holds a ContainerNode without children
RECURSIVE NoZeroSizeNoEmptyGroup(_)
NoZeroSizeNoEmptyGroup(nodes) ==
    \A i \in 1..Len(nodes) :
        /\ HoldsLeafContainer(nodes[i])
        /\ (Has(nodes[i], "size") /\ Len(nodes[i].children) > 0) => nodes[i].size > 0
        /\ NoZeroSizeNoEmptyGroup(nodes[i].children)

\* C23 for the documents without a size of 0.0 on a node with children and
\* without a group that holds no ContainerNode
C23_PositiveAreaWithoutZeroSizeAndEmptyGroups ==
    (pc = "laidOut" /\ ValuesInRange(document) /\ NoZeroSizeNoEmptyGroup(document.nodes)) =>
        \A lay \in ContainerLayouts(layout.rootLayouts) : PositiveArea(lay.dimensions)

InsideCanvas(box, lay) ==
    /\ box.x >= 0 /\ box.y >= 0
    /\ box.x + box.width <= lay.canvasWidth
    /\ box.y + box.height <= lay.canvasHeight

\* C24: in every layout result the box of every ContainerNode, at every
\* depth, lies inside the canvas: x >= 0, y >= 0, x + width <= canvasWidth
\* and y + height <= canvasHeight.
C24_EveryBoxInsideCanvas ==
    pc = "laidOut" =>
        \A lay \in ContainerLayouts(layout.rootLayouts) : InsideCanvas(lay.dimensions, layout)

\* no ContainerNode with children has a size override
RECURSIVE NoSizeOnParents(_)
NoSizeOnParents(nodes) ==
    \A i \in 1..Len(nodes) :
        /\ ~(Has(nodes[i], "size") /\ Len(nodes[i].children) > 0)
        /\ NoSizeOnParents(nodes[i].children)

\* C24 for the top-level nodes of every document, and for all nodes of the
\* documents in which no node with children has a size override
C24_InsideCanvasWithoutSizeOnParents ==
    pc = "laidOut" =>
        /\ \A i \in 1..Len(layout.rootLayouts) :
               InsideCanvas(layout.rootLayouts[i].dimensions, layout)
        /\ NoSizeOnParents(document.nodes) =>
               \A lay \in ContainerLayouts(layout.rootLayouts) :
                   InsideCanvas(lay.dimensions, layout)

\* the boxes of the ContainerNodes of the positioned trees with the index
\* path of each in the forest
RECURSIVE BoxesAt(_, _)
BoxesAt(layouts, prefix) ==
    UNION { (IF Has(layouts[i].node, "id")
             THEN {[at |-> Append(prefix, i), box |-> layouts[i].dimensions]}
             ELSE {})
            \cup BoxesAt(layouts[i].children, Append(prefix, i)) :
            i \in 1..Len(layouts) }

IsPrefix(p, q) == Len(p) <= Len(q) /\ SubSeq(q, 1, Len(p)) = p

MinOf(a, b) == IF a <= b THEN a ELSE b

\* the interiors of the two boxes have a point in common
InteriorsMeet(a, b) ==
    /\ MaxOf(a.x, b.x) < MinOf(a.x + a.width, b.x + b.width)
    /\ MaxOf(a.y, b.y) < MinOf(a.y + a.height, b.y + b.height)

Unrelated(m, n) == ~IsPrefix(m.at, n.at) /\ ~IsPrefix(n.at, m.at)

\* C25: in every layout result the boxes of two ContainerNodes of which
\* neither is an ancestor of the other have disjoint interiors.
C25_UnrelatedBoxesDisjoint ==
    pc = "laidOut" =>
        \A m, n \in BoxesAt(layout.rootLayouts, <<>>) :
            Unrelated(m, n) => ~InteriorsMeet(m.box, n.box)

\* C25 for the documents in which no node with children has a size override
C25_DisjointWithoutSizeOnParents ==
    (pc = "laidOut" /\ NoSizeOnParents(document.nodes)) =>
        \A m, n \in BoxesAt(layout.rootLayouts, <<>>) :
            Unrelated(m, n) => ~InteriorsMeet(m.box, n.box)

\* no node of the forest has a size override
RECURSIVE NoSizeOverride(_)
NoSizeOverride(nodes) ==
    \A i \in 1..Len(nodes) : ~Has(nodes[i], "size") /\ NoSizeOverride(nodes[i].children)

Contains(outer, inner) ==
    /\ outer.x <= inner.x /\ outer.y <= inner.y
    /\ inner.x + inner.width <= outer.x + outer.width
    /\ inner.y + inner.height <= outer.y + outer.height

\* m is the nearest enclosing ContainerNode of n among the boxes
NearestEnclosing(m, n, boxes) ==
    /\ m.at # n.at /\ IsPrefix(m.at, n.at)
    /\ \A k \in boxes : (k.at # n.at /\ IsPrefix(k.at, n.at)) => IsPrefix(k.at, m.at)

\* in the positioned trees of a document in which no node has a size
\* override, the box computed for a ContainerNode is contained in the box
\* computed for its nearest enclosing ContainerNode
C26_ComputedBoxInsideEnclosingBox ==
    (pc = "laidOut" /\ NoSizeOverride(document.nodes)) =>
        LET boxes == BoxesAt(layout.rootLayouts, <<>>)
        IN  \A m, n \in boxes : NearestEnclosing(m, n, boxes) => Contains(m.box, n.box)

\* the ContainerNodes of the document with the index path of each and the
\* box the layout result reports under the node's ID
ReportedBoxes ==
    { [at |-> ipath, box |-> Reported(layout, NodeAtIndex(document.nodes, ipath).id)] :
        ipath \in { q \in IndexPaths(document.nodes) :
                      Has(NodeAtIndex(document.nodes, q), "id") } }

\* C26: in the layout result of a document in which no node has a size
\* override, the box reported for every ContainerNode is contained in the
\* box reported for its nearest enclosing ContainerNode.
C26_BoxInsideEnclosingBox ==
    (pc = "laidOut" /\ NoSizeOverride(document.nodes)) =>
        \A m, n \in ReportedBoxes :
            NearestEnclosing(m, n, ReportedBoxes) => Contains(m.box, n.box)

\* the layout nodes of the positioned trees, of ContainerNodes and of groups
RECURSIVE AllLayouts(_)
AllLayouts(layouts) ==
    UNION { {layouts[i]} \cup AllLayouts(layouts[i].children) : i \in 1..Len(layouts) }

\* the box the engine computed for the node of a layout node
ComputedBox(lay) == lay.dimensions

\* the box of the node in the layout result: the entry of the node-dimensions
\* map for a ContainerNode; a group has no entry, its box is the computed one
ReportedBox(lay) ==
    IF Has(lay.node, "id") THEN Reported(layout, lay.node.id) ELSE lay.dimensions

\* the children of the node are placed one after the other along its
\* direction, starting at its own position
ChildrenPlaced(lay, BoxOf(_)) ==
    LET own == BoxOf(lay)
        kids == lay.children
    IN  \A i \in 1..Len(kids) :
            LET box == BoxOf(kids[i])
            IN  IF i = 1 THEN box.x = own.x /\ box.y = own.y
                ELSE LET before == BoxOf(kids[i - 1])
                     IN  IF DirectionOf(lay.node) = "horizontal"
                         THEN box.x = before.x + before.width /\ box.y = own.y
                         ELSE box.y = before.y + before.height /\ box.x = own.x

\* the node-dimensions map has an entry for the ID of every ContainerNode and
\* no other entry; a group has none
OnlyContainerEntries ==
    /\ \A lay \in AllLayouts(layout.rootLayouts) :
           IF Has(lay.node, "id") THEN MapHas(layout.nodeDimensions, lay.node.id)
           ELSE ~MapHas(layout.nodeDimensions, lay.id)
    /\ \A i \in 1..Len(layout.nodeDimensions) :
           \E lay \in ContainerLayouts(layout.rootLayouts) :
               lay.node.id = layout.nodeDimensions[i].key

\* C27: in every layout result the first child of a node is at the node's
\* reported (x, y) and each later child at the previous child's position
\* advanced along the node's direction by the previous child's reported
\* extent, the other coordinate being the node's; groups pass the offsets on
\* in the same way and have no entry in the node-dimensions map.
C27_ChildrenPlacedAlongDirection ==
    pc = "laidOut" =>
        /\ \A lay \in AllLayouts(layout.rootLayouts) : ChildrenPlaced(lay, ReportedBox)
        /\ OnlyContainerEntries

\* C27 on the boxes the engine computed, before they are collected under
\* the IDs
C27_ComputedChildrenPlacedAlongDirection ==
    pc = "laidOut" =>
        /\ \A lay \in AllLayouts(layout.rootLayouts) : ChildrenPlaced(lay, ComputedBox)
        /\ OnlyContainerEntries

\* C27 for the documents in which no two ContainerNodes have the same ID
C27_ChildrenPlacedAlongDirectionUniqueIds ==
    (pc = "laidOut" /\ UniqueIds(ContainerLayoutSeq(layout.rootLayouts))) =>
        \A lay \in AllLayouts(layout.rootLayouts) : ChildrenPlaced(lay, ReportedBox)

(***************************************************************************)
(* Properties of the parser: duplicate anchor identifiers                  *)
(***************************************************************************)
\* how many entries of the block carry the identifier
Occurrences(es, name) == Cardinality({ i \in 1..Len(es) : es[i].name = name })

LastOccurrence(es, name) ==
    CHOOSE i \in 1..Len(es) :
        es[i].name = name /\ \A j \in (i + 1)..Len(es) : es[j].name # name

\* the duplicate-identifier errors recorded for the identifier
DuplicateAnchorErrors(errs, name) ==
    SelectSeq(errs, LAMBDA e : /\ e.type = "syntax"
                               /\ e.message.text = "Duplicate anchor ID"
                               /\ e.message.arg = name)

\* the node parsed from the declaration of an anchors block
ParsedAnchorNode == parseResult[1].document.nodes[1]

\* for every identifier of the block there is one duplicate error per
\* occurrence after the first, and the anchors map holds the coordinates of
\* the last occurrence when that occurrence has coordinates
DuplicatesReported(es) ==
    \A name \in { es[i].name : i \in 1..Len(es) } :
        /\ Len(DuplicateAnchorErrors(parseResult[1].errors, name))
               = Occurrences(es, name) - 1
        /\ es[LastOccurrence(es, name)].coord # None =>
               /\ Has(ParsedAnchorNode, "anchors")
               /\ name \in ObjKeys(ParsedAnchorNode.anchors)
               /\ ObjGet(ParsedAnchorNode.anchors, name)
                      = es[LastOccurrence(es, name)].coord[1]

\* C28: when the parser has returned from a declaration whose anchors block
\* repeats an identifier, it has recorded one duplicate-identifier syntax
\* error for each occurrence after the first, and the anchors map holds the
\* coordinates of the last occurrence.
C28_DuplicateAnchorLastWins ==
    pc = "parsed" =>
        \A es \in UpTo(AnchorEntries, MaxAnchorEntries) :
            input = AnchorBlockText(es) => DuplicatesReported(es)

\* C28 for the blocks in which every entry is an identifier with a
\* coordinate pair
C28_DuplicateAnchorLastWinsWellFormed ==
    pc = "parsed" =>
        \A es \in UpTo(AnchorEntries, MaxAnchorEntries) :
            (input = AnchorBlockText(es) /\ \A i \in 1..Len(es) : es[i].coord # None)
                => DuplicatesReported(es)

(***************************************************************************)
(* Properties of watch mode: overlapping regenerations                     *)
(***************************************************************************)
\* every timer has run and every run has returned
WatchQuiet == watch.timers = {} /\ InProgress(watch) = {}

\* C29: in watch mode at most one processing run is in progress at any time,
\* whatever the order of 'change' events, 'add' events and completions of
\* file reads and writes; and when all runs have returned the output file
\* holds the result of the run that started last.
C29_OneRegenerationAtATime ==
    pc = "watching" =>
        /\ Cardinality(InProgress(watch)) <= 1
        /\ (WatchQuiet /\ Len(watch.runs) > 0) =>
               watch.output = Some(watch.runs[Len(watch.runs)].content)

\* the second half of C29 alone
C29_OutputOfLastRun ==
    (pc = "watching" /\ WatchQuiet /\ Len(watch.runs) > 0) =>
        watch.output = Some(watch.runs[Len(watch.runs)].content)

(***************************************************************************)
(* Properties of the tokenizer: the positions the tokens carry             *)
(***************************************************************************)
\* the 0-based offsets of `input` whose line and column are those of `tok`
\* (at most one offset)
OffsetsOf(tok) ==
    { k \in 0..Len(input) :
        LineAt(input, k) = tok.line /\ ColumnAt(input, k) = tok.column }

OffsetOf(tok) == CHOOSE k \in OffsetsOf(tok) : TRUE

\* the source text a token begins with: the opening quote of a string,
\* nothing for EOF, the token's own text otherwise
TokenText(tok) ==
    IF tok.type = "STRING" THEN <<QUOTE>>
    ELSE IF tok.type = "EOF" THEN <<>>
    ELSE tok.value

\* the token's line and column are those of an offset where its text stands
\* (the end of the input for EOF)
CarriesStartPosition(tok) ==
    /\ OffsetsOf(tok) # {}
    /\ LET k == OffsetOf(tok)
           text == TokenText(tok)
       IN  /\ k + Len(text) <= Len(input)
           /\ SubSeq(input, k + 1, k + Len(text)) = text
           /\ tok.type = "EOF" => k = Len(input)

\* the tokens' positions follow each other in the source without overlap
PositionsInSourceOrder ==
    \A i \in 1..(Len(tokens) - 1) :
        (CarriesStartPosition(tokens[i]) /\ CarriesStartPosition(tokens[i + 1])) =>
            OffsetOf(tokens[i]) + Len(TokenText(tokens[i])) <= OffsetOf(tokens[i + 1])

\* tokenize() has returned its list
TokenizerReturned == pc # "tokenize" /\ tokens # <<>>

\* the list ends with EOF and holds no other EOF
SingleFinalEOF ==
    /\ tokens[Len(tokens)].type = "EOF"
    /\ \A i \in 1..(Len(tokens) - 1) : tokens[i].type # "EOF"

\* a string literal of the source that holds a raw newline
HasNewlineInString ==
    \E i \in 1..Len(tokens) :
        tokens[i].type = "STRING" /\ \E j \in 1..Len(tokens[i].value) : tokens[i].value[j] = NL

\* C30: every token the tokenizer returns carries the line and column of its
\* first character in the source (line: one plus the newlines before it,
\* column: one plus the characters since the last newline before it), also
\* after a string literal that holds newlines, and the returned list ends
\* with its only EOF token.
C30_TokensCarryStartPosition ==
    /\ \A i \in 1..Len(tokens) : CarriesStartPosition(tokens[i])
    /\ PositionsInSourceOrder
    /\ TokenizerReturned => SingleFinalEOF

\* C30 for the sources without a newline inside a string literal, stated of
\* the token appended last (every token of the list is the last one in the
\* state its scan leaves)
C30_StartPositionWithoutNewlineInString ==
    (tokens # <<>> /\ ~HasNewlineInString) =>
        LET n == Len(tokens)
        IN  /\ CarriesStartPosition(tokens[n])
            /\ n > 1 => /\ CarriesStartPosition(tokens[n - 1])
                        /\ OffsetOf(tokens[n - 1]) + Len(TokenText(tokens[n - 1]))
                               <= OffsetOf(tokens[n])
            /\ TokenizerReturned => SingleFinalEOF

\* the last part of C30 alone
C30_SingleFinalEOF == TokenizerReturned => SingleFinalEOF

====
